---- MODULE Spec2Model ----
(***************************************************************************)
(* Model of the prime-visualizer spiral-arm pipeline                       *)
(* (src/src/components/PrimeVisualization.tsx) and of the state of its     *)
(* host component (src/src/components/ThreeGrid.tsx).                      *)
(*                                                                         *)
(* Numbers.  A JavaScript number is a record [k, n, d]: k = "num" is the   *)
(* rational n/d in lowest terms with d > 0, k = "NaN" is NaN and k = "Inf" *)
(* is +Infinity (n = 1) or -Infinity (n = -1).  The sign of a zero is not  *)
(* kept: every modelled expression gives the same result for +0 and -0     *)
(* (x % +-0 is NaN, x % +-Infinity is x, and a residue class of one index  *)
(* never forms an arm).  Prime values, indices and counts that the code    *)
(* keeps integral are plain integers.                                      *)
(*                                                                         *)
(* Positions.  The code derives x = radius * cos(angle) and                *)
(* y = radius * sin(angle); the model keeps the two polar arguments the    *)
(* pair (x, y) is computed from.  Angles are kept in degrees (the code     *)
(* multiplies by the constant PI / 180).                                   *)
(***************************************************************************)
EXTENDS Integers, Sequences, FiniteSets, TLC

VARIABLES
    primeCount,       \* ThreeGrid: useState(300)
    angleDelta,       \* ThreeGrid: useState(36)
    predictionCount,  \* ThreeGrid: useState(3)
    showPredictions,  \* ThreeGrid: useState(false)
    primes,           \* ThreeGrid: useState([]), filled by the sieve effect
    predictionGroup,  \* PrimeVisualization: predictionGroupRef.current
    accuracyState,    \* PrimeVisualization: useState(null), accuracyRef.current
    effectCalls,      \* the calls the prediction effect made when it last ran
    canvasState,      \* App: useState({..., angleDelta: 36, traceRoute: 0, ...})
    pointers,         \* utils/Canvas: const pointers = []
    previousDistance, \* utils/Canvas: let previousDistance = -1
    drawn,            \* App: what the last run of the draw effect did
    scene,            \* PrimeVisualization: its props, refs, loops and font loads
    firstResults,     \* repeated recomputations: the first result for each input
    lastEvent,        \* the last handler that ran, and whether it stored a value
    call,             \* direct call of a pipeline function: its name and arguments
    ret               \* the value that call returned

vars == <<primeCount, angleDelta, predictionCount, showPredictions, primes,
          predictionGroup, accuracyState, effectCalls, canvasState,
          pointers, previousDistance, drawn, scene, firstResults, lastEvent, call, ret>>

---------------------------------------------------------------------------
(* JavaScript numbers *)

RECURSIVE Gcd(_, _)
Gcd(a, b) == IF b = 0 THEN a ELSE Gcd(b, a % b)

Abs(x) == IF x < 0 THEN -x ELSE x

NaN == [k |-> "NaN", n |-> 0, d |-> 1]
PosInfinity == [k |-> "Inf", n |-> 1, d |-> 1]
NegInfinity == [k |-> "Inf", n |-> -1, d |-> 1]

\* the rational n/d, d # 0, in lowest terms
Rat(n, d) ==
    LET g == Gcd(Abs(n), Abs(d))
        s == IF d < 0 THEN -1 ELSE 1
    IN  [k |-> "num", n |-> (s * n) \div g, d |-> (s * d) \div g]

Num(n) == [k |-> "num", n |-> n, d |-> 1]

IsNaN(a) == a.k = "NaN"
IsFinite(a) == a.k = "num"
IsInteger(a) == a.k = "num" /\ a.d = 1
Sign(a) == IF a.n > 0 THEN 1 ELSE IF a.n < 0 THEN -1 ELSE 0

\* a < b, a > b: false as soon as one side is NaN
JsLt(a, b) ==
    /\ ~IsNaN(a) /\ ~IsNaN(b)
    /\ CASE a.k = "Inf" /\ b.k = "Inf" -> a.n < b.n
         [] a.k = "Inf" -> a.n < 0
         [] b.k = "Inf" -> b.n > 0
         [] OTHER -> a.n * b.d < b.n * a.d
JsGt(a, b) == JsLt(b, a)
JsLe(a, b) == ~IsNaN(a) /\ ~IsNaN(b) /\ ~JsLt(b, a)
JsGe(a, b) == JsLe(b, a)

\* a * b: 0 * Infinity is NaN
JsMul(a, b) ==
    CASE IsNaN(a) \/ IsNaN(b) -> NaN
      [] a.k = "Inf" \/ b.k = "Inf" ->
            IF Sign(a) * Sign(b) = 0 THEN NaN
            ELSE IF Sign(a) * Sign(b) > 0 THEN PosInfinity ELSE NegInfinity
      [] OTHER -> Rat(a.n * b.n, a.d * b.d)

\* a + b: Infinity + -Infinity is NaN
JsAdd(a, b) ==
    CASE IsNaN(a) \/ IsNaN(b) -> NaN
      [] a.k = "Inf" /\ b.k = "Inf" -> IF a.n = b.n THEN a ELSE NaN
      [] a.k = "Inf" -> a
      [] b.k = "Inf" -> b
      [] OTHER -> Rat(a.n * b.d + b.n * a.d, a.d * b.d)

\* a / b: x / 0 is +-Infinity, 0 / 0 and Infinity / Infinity are NaN
JsDiv(a, b) ==
    CASE IsNaN(a) \/ IsNaN(b) -> NaN
      [] a.k = "Inf" /\ b.k = "Inf" -> NaN
      [] a.k = "Inf" -> IF Sign(b) < 0 THEN [a EXCEPT !.n = -a.n] ELSE a
      [] b.k = "Inf" -> Num(0)
      [] b.n = 0 -> IF a.n = 0 THEN NaN
                    ELSE IF a.n > 0 THEN PosInfinity ELSE NegInfinity
      [] OTHER -> Rat(a.n * b.d, a.d * b.n)

\* Variant that drops the fraction.
MathRound_Truncates(a) ==
    IF a.k = "num" THEN Num(a.n \div a.d) ELSE a

\* Math.round: the nearest integer, a tie going up (floor(x + 1/2))
MathRound(a) ==
    IF a.k = "num" THEN Num((2 * a.n + a.d) \div (2 * a.d)) ELSE a

\* i % m for an integer i >= 0: the result has the sign of the dividend;
\* i % 0 and i % NaN are NaN, i % +-Infinity is i
JsMod(i, m) ==
    CASE IsNaN(m) -> NaN
      [] m.k = "Inf" -> Num(i)
      [] m.n = 0 -> NaN
      [] OTHER -> LET q == Rat(i * m.d, Abs(m.n))     \* i / |m|
                      t == q.n \div q.d               \* trunc, i >= 0
                  IN  JsAdd(Num(i), Rat(-(t * Abs(m.n)), m.d))

\* null
Null == [isNull |-> TRUE]

---------------------------------------------------------------------------
(* Strings are sequences of one-character strings.  parseInt and parseFloat *)
(* follow ECMAScript: leading white space is skipped, an optional sign is   *)
(* read, then the longest prefix that is a numeral; the rest is ignored.    *)

Digits == <<"0", "1", "2", "3", "4", "5", "6", "7", "8", "9">>
HexLetters == <<"a", "b", "c", "d", "e", "f">>
HexCapitals == <<"A", "B", "C", "D", "E", "F">>
IsDigit(c) == \E i \in 1..10 : Digits[i] = c
DigitVal(c) == (CHOOSE i \in 1..10 : Digits[i] = c) - 1
IsHexDigit(c) ==
    IsDigit(c) \/ \E i \in 1..6 : HexLetters[i] = c \/ HexCapitals[i] = c
HexVal(c) ==
    IF IsDigit(c) THEN DigitVal(c)
    ELSE 9 + (CHOOSE i \in 1..6 : HexLetters[i] = c \/ HexCapitals[i] = c)

Tail2(s) == SubSeq(s, 2, Len(s))
Drop(s, k) == SubSeq(s, k + 1, Len(s))

RECURSIVE TrimStart(_)
TrimStart(s) == IF s # <<>> /\ s[1] = " " THEN TrimStart(Tail2(s)) ELSE s

\* the number of leading characters of s that are digits of the radix
RECURSIVE DigitRun(_, _)
DigitRun(s, radix) ==
    IF s # <<>> /\ (IF radix = 16 THEN IsHexDigit(s[1]) ELSE IsDigit(s[1]))
    THEN 1 + DigitRun(Tail2(s), radix) ELSE 0

\* the value of a string of digits of the radix
RECURSIVE DigitsValue(_, _, _)
DigitsValue(s, radix, acc) ==
    IF s = <<>> THEN acc
    ELSE DigitsValue(Tail2(s), radix, acc * radix + HexVal(s[1]))

RECURSIVE Pow10(_)
Pow10(e) == IF e = 0 THEN 1 ELSE 10 * Pow10(e - 1)

HasSign(s) == s # <<>> /\ s[1] \in {"+", "-"}
SignOf(s) == IF s # <<>> /\ s[1] = "-" THEN -1 ELSE 1

\* parseInt(string) with no radix argument
parseInt(str) ==
    LET t == TrimStart(str)
        sg == SignOf(t)
        u == IF HasSign(t) THEN Tail2(t) ELSE t
        hex == Len(u) >= 2 /\ u[1] = "0" /\ u[2] \in {"x", "X"}
        radix == IF hex THEN 16 ELSE 10
        v == IF hex THEN Drop(u, 2) ELSE u
        len == DigitRun(v, radix)
    IN  IF len = 0 THEN NaN
        ELSE Num(sg * DigitsValue(SubSeq(v, 1, len), radix, 0))

InfinityLiteral == <<"I", "n", "f", "i", "n", "i", "t", "y">>

\* parseFloat(string): StrDecimalLiteral, the longest prefix
\* [digits][.digits][(e|E)[sign]digits] that has at least one mantissa digit
parseFloat(str) ==
    LET t == TrimStart(str)
        sg == SignOf(t)
        u == IF HasSign(t) THEN Tail2(t) ELSE t
        ilen == DigitRun(u, 10)
        afterInt == Drop(u, ilen)
        hasDot == afterInt # <<>> /\ afterInt[1] = "."
        flen == IF hasDot THEN DigitRun(Tail2(afterInt), 10) ELSE 0
        afterMant == IF hasDot THEN Drop(afterInt, 1 + flen) ELSE afterInt
        mant == DigitsValue(SubSeq(u, 1, ilen), 10, 0) * Pow10(flen)
                + (IF hasDot
                   THEN DigitsValue(SubSeq(afterInt, 2, 1 + flen), 10, 0)
                   ELSE 0)
        hasE == afterMant # <<>> /\ afterMant[1] \in {"e", "E"}
        expPart == IF hasE THEN Tail2(afterMant) ELSE <<>>
        esg == SignOf(expPart)
        expDigits == IF HasSign(expPart) THEN Tail2(expPart) ELSE expPart
        elen == DigitRun(expDigits, 10)
        ex == IF elen = 0 THEN 0
              ELSE esg * DigitsValue(SubSeq(expDigits, 1, elen), 10, 0)
    IN  IF Len(u) >= 8 /\ SubSeq(u, 1, 8) = InfinityLiteral
        THEN (IF sg < 0 THEN NegInfinity ELSE PosInfinity)
        ELSE IF ilen + flen = 0 THEN NaN
        ELSE IF ex >= 0 THEN Rat(sg * mant * Pow10(ex), Pow10(flen))
        ELSE Rat(sg * mant, Pow10(flen) * Pow10(-ex))

---------------------------------------------------------------------------
(* generatePrimesUpTo, PrimeVisualization.tsx lines 8-31 *)

Min(a, b) == IF a < b THEN a ELSE b
Max(a, b) == IF a > b THEN a ELSE b

\* ToIntegerOrInfinity of a number that is not +Infinity: NaN is 0, a
\* fraction is truncated toward 0; -Infinity is kept below every length
ToInteger(a) ==
    CASE IsNaN(a) -> 0
      [] a.k = "Inf" -> -1
      [] OTHER -> Sign(a) * (Abs(a.n) \div a.d)

\* Variant that ignores the end.
SliceTo_Whole(a, end) == a

\* Array.prototype.slice(0, end): a negative end counts from the end
SliceTo(a, end) ==
    LET e == ToInteger(end)
    IN  SubSeq(a, 1, IF end.k = "Inf" /\ end.n < 0 THEN 0
                     ELSE IF e < 0 THEN Max(Len(a) + e, 0) ELSE Min(e, Len(a)))

\* Variant that stops at p >= sqrt(candidate).
RECURSIVE IsPrimeByTrial_StopsEarly(_, _, _)
IsPrimeByTrial_StopsEarly(found, i, candidate) ==
    IF i > Len(found) THEN TRUE
    ELSE IF found[i] * found[i] >= candidate THEN TRUE
    ELSE IF candidate % found[i] = 0 THEN FALSE
    ELSE IsPrimeByTrial_StopsEarly(found, i + 1, candidate)

\* the inner for loop: TRUE when no prime p <= sqrt(candidate) divides it
\* (p > Math.sqrt(candidate) is p * p > candidate for the positive integers)
RECURSIVE IsPrimeByTrial(_, _, _)
IsPrimeByTrial(found, i, candidate) ==
    IF i > Len(found) THEN TRUE
    ELSE IF found[i] * found[i] > candidate THEN TRUE
    ELSE IF candidate % found[i] = 0 THEN FALSE
    ELSE IsPrimeByTrial(found, i + 1, candidate)

\* the iterations of the while loop up to and including the next push:
\* the first candidate, from `candidate` on, that passes the trial division
RECURSIVE NextPushed(_, _)
NextPushed(found, candidate) ==
    IF IsPrimeByTrial(found, 1, candidate) THEN candidate
    ELSE NextPushed(found, candidate + 1)

PushNext(st) ==
    LET pushed == NextPushed(st.found, st.candidate)
    IN  [found |-> Append(st.found, pushed), candidate |-> pushed + 1]

\* k pushes in a row, split in halves to keep the evaluation shallow
\* (st # st is FALSE: it has st evaluated before the descent)
RECURSIVE Pushes(_, _)
Pushes(st, k) ==
    IF st # st \/ k <= 0 THEN st
    ELSE IF k = 1 THEN PushNext(st)
    ELSE Pushes(Pushes(st, k \div 2), k - (k \div 2))

\* the smallest integer >= a finite number
Ceil(a) == -((-a.n) \div a.d)

\* the while loop: it runs while primes.length < count and every push adds
\* one to primes.length, so it ends after ceil(count) - primes.length pushes
ExtendLoop(found, candidate, count) ==
    IF ~JsLt(Num(Len(found)), count) THEN found
    ELSE Pushes([found |-> found, candidate |-> candidate],
                Ceil(count) - Len(found)).found

\* The result of a call: `returned` is the array it returns, `startingPrimes`
\* the caller's array as the call leaves it and `diverges` whether the while
\* loop never ends (count is +Infinity; nothing is returned then).
Diverges(count, startingPrimes) ==
    [returned |-> <<>>, startingPrimes |-> startingPrimes, diverges |-> TRUE]

\* Variant that pushes onto the caller's array instead of a copy of it.
generatePrimesUpTo_NoCopy(count, startingPrimes) ==
    IF JsGe(Num(Len(startingPrimes)), count)
    THEN [returned |-> SliceTo(startingPrimes, count),
          startingPrimes |-> startingPrimes, diverges |-> FALSE]
    ELSE IF count = PosInfinity THEN Diverges(count, startingPrimes)
    ELSE LET candidate == IF Len(startingPrimes) > 0
                          THEN startingPrimes[Len(startingPrimes)] + 1 ELSE 2
             found == ExtendLoop(startingPrimes, candidate, count)
         IN  [returned |-> found, startingPrimes |-> found,
              diverges |-> FALSE]

generatePrimesUpTo(count, startingPrimes) ==
    IF JsGe(Num(Len(startingPrimes)), count)
    THEN [returned |-> SliceTo(startingPrimes, count),
          startingPrimes |-> startingPrimes, diverges |-> FALSE]
    ELSE IF count = PosInfinity THEN Diverges(count, startingPrimes)
    ELSE LET copy == startingPrimes          \* [...startingPrimes]
             candidate == IF Len(copy) > 0 THEN copy[Len(copy)] + 1 ELSE 2
         IN  [returned |-> ExtendLoop(copy, candidate, count),
              startingPrimes |-> startingPrimes, diverges |-> FALSE]

---------------------------------------------------------------------------
(* predictArmExtension, PrimeVisualization.tsx lines 72-129 *)

RecentWindow == 5          \* Math.min(5, n)
FallbackGap == 100         \* avgGap when there is no gap
RadiusScale == Rat(1, 100) \* 0.01

\* Variant that keeps every point of the arm.
LastK_Whole(points, k) == points

\* points.slice(-k) for 0 < k <= Len(points)
LastK(points, k) == SubSeq(points, Len(points) - k + 1, Len(points))

\* primeGaps: the differences of consecutive primes of the recent points
PrimeGaps(recentPoints) ==
    [i \in 1..(Len(recentPoints) - 1) |->
        recentPoints[i + 1].prime - recentPoints[i].prime]

RECURSIVE SumSeq(_)
SumSeq(s) == IF s = <<>> THEN 0 ELSE s[1] + SumSeq(Tail2(s))

AvgGap(primeGaps) ==
    IF Len(primeGaps) > 0 THEN Rat(SumSeq(primeGaps), Len(primeGaps))
    ELSE Num(FallbackGap)

\* Variant that takes the acceleration from a single gap on.
GapAcceleration_FromOneGap(primeGaps) ==
    IF Len(primeGaps) > 0
    THEN JsDiv(Num(primeGaps[Len(primeGaps)] - primeGaps[1]),
               Num(Len(primeGaps) - 1))
    ELSE Num(0)

GapAcceleration(primeGaps) ==
    IF Len(primeGaps) > 1
    THEN Rat(primeGaps[Len(primeGaps)] - primeGaps[1], Len(primeGaps) - 1)
    ELSE Num(0)

\* the for loop over step = from..numPredictions, carrying predictedPrime and
\* currentGap; a prediction is [radius, angle, predictedPrime]: x and y are
\* radius * cos(angle) and radius * sin(angle), angle in degrees
RECURSIVE PredictLoop(_, _, _, _, _, _, _, _)
PredictLoop(step, numPredictions, lastPoint, stepsPerRotation, angleDeltaDeg, gapAcceleration, predictedPrime, currentGap) ==
    IF ~JsLe(Num(step), numPredictions) THEN <<>>
    ELSE LET predictedIndex ==
                 JsAdd(Num(lastPoint.index), JsMul(Num(step), stepsPerRotation))
             predictedAngle == JsMul(predictedIndex, angleDeltaDeg)
             gap == JsAdd(currentGap, gapAcceleration)
             prime == JsAdd(predictedPrime, gap)
             predictedRadius == JsMul(RadiusScale, prime)
         IN  <<[radius |-> predictedRadius, angle |-> predictedAngle,
                predictedPrime |-> MathRound(prime)]>>
             \o PredictLoop(step + 1, numPredictions, lastPoint,
                            stepsPerRotation, angleDeltaDeg, gapAcceleration,
                            prime, gap)

\* Variant that asks for three points.
predictArmExtension_NeedsThree(points, stepsPerRotation, angleDeltaDeg, numPredictions) ==
    IF Len(points) < 3 THEN <<>>
    ELSE LET n == Len(points)
             lastPoint == points[n]
             numPointsToUse == Min(RecentWindow, n)
             primeGaps == PrimeGaps(LastK(points, numPointsToUse))
         IN  PredictLoop(1, numPredictions, lastPoint, stepsPerRotation,
                         angleDeltaDeg, GapAcceleration(primeGaps),
                         Num(lastPoint.prime), AvgGap(primeGaps))

predictArmExtension(points, stepsPerRotation, angleDeltaDeg, numPredictions) ==
    IF Len(points) < 2 THEN <<>>
    ELSE LET n == Len(points)
             lastPoint == points[n]
             numPointsToUse == Min(RecentWindow, n)
             primeGaps == PrimeGaps(LastK(points, numPointsToUse))
         IN  PredictLoop(1, numPredictions, lastPoint, stepsPerRotation,
                         angleDeltaDeg, GapAcceleration(primeGaps),
                         Num(lastPoint.prime), AvgGap(primeGaps))

---------------------------------------------------------------------------
(* detectSpiralArms (residue classes), PrimeVisualization.tsx lines 134-202 *)

MinPrimesForArms == 3      \* primes.length < 3: no arm
MinArmPoints == 2          \* points.length >= 2
FullTurn == 360

\* Variant that divides the half turn.
StepsPerRotation_HalfTurn(angleDeltaDeg) ==
    MathRound(JsDiv(Num(180), angleDeltaDeg))

\* Math.round(360 / angleDelta)
StepsPerRotation(angleDeltaDeg) == MathRound(JsDiv(Num(FullTurn), angleDeltaDeg))

\* Variant that keeps the angle within one turn.
ArmPoint_Wrapped(primeList, index, angleDeltaDeg) ==
    [prime |-> primeList[index + 1], index |-> index,
     angle |-> IF IsFinite(angleDeltaDeg) /\ angleDeltaDeg.n > 0
               THEN JsAdd(JsMul(Num(index), angleDeltaDeg),
                          Num(-360 * ((index * angleDeltaDeg.n)
                                      \div (360 * angleDeltaDeg.d))))
               ELSE JsMul(Num(index), angleDeltaDeg),
     radius |-> JsMul(RadiusScale, Num(primeList[index + 1]))]

\* the point built for primes[index] (index counted from 0)
ArmPoint(primeList, index, angleDeltaDeg) ==
    [prime |-> primeList[index + 1], index |-> index,
     angle |-> JsMul(Num(index), angleDeltaDeg),
     radius |-> JsMul(RadiusScale, Num(primeList[index + 1]))]

\* Variant that takes the sign of the divisor.
ArmIndexOf_Floored(index, stepsPerRotation) ==
    IF IsFinite(stepsPerRotation) /\ stepsPerRotation.n < 0
    THEN Num(-((-index) % (-stepsPerRotation.n)))
    ELSE JsMod(index, stepsPerRotation)

\* the arm index of an index: index % stepsPerRotation
ArmIndexOf(index, stepsPerRotation) == JsMod(index, stepsPerRotation)

\* the points built by primes.forEach, in index order
\* (\o <<>> leaves the value unchanged: it has the sequence evaluated once)
AllPoints(primeList, angleDeltaDeg) ==
    [i \in 1..Len(primeList) |-> ArmPoint(primeList, i - 1, angleDeltaDeg)]
    \o <<>>

\* the arm index of every index 0..n-1, in index order
ArmIndexes(n, stepsPerRotation) ==
    [i \in 1..n |-> ArmIndexOf(i - 1, stepsPerRotation)] \o <<>>

\* the keys of armBuckets in insertion order: a key is inserted at the first
\* index that has it
BucketKeys(armIndexes) ==
    LET keySet == {armIndexes[i] : i \in 1..Len(armIndexes)}
        firstOf == [key \in keySet |->
                       CHOOSE i \in 1..Len(armIndexes) :
                           /\ armIndexes[i] = key
                           /\ \A j \in 1..(i - 1) : armIndexes[j] # key]
        firsts == SelectSeq([i \in 1..Len(armIndexes) |-> i],
                            LAMBDA i : firstOf[armIndexes[i]] = i)
    IN  [j \in 1..Len(firsts) |-> armIndexes[firsts[j]]]

\* armBuckets.get(key): the points pushed to the bucket, in push order
BucketPoints(points, armIndexes, key) ==
    SelectSeq(points, LAMBDA p : armIndexes[p.index + 1] = key)

\* a.index - b.index < 0 and a.armIndex - b.armIndex < 0: the comparators
PointBefore(a, b) == a.index < b.index
\* Variant that compares the other way round.
ArmBefore_Descending(a, b) ==
    JsLt(JsAdd(b.armIndex, JsMul(Num(-1), a.armIndex)), Num(0))

ArmBefore(a, b) == JsLt(JsAdd(a.armIndex, JsMul(Num(-1), b.armIndex)), Num(0))

\* the comparator of a sort says "a before b" when it returns less than 0
Before(by, a, b) == IF by = "index" THEN PointBefore(a, b) ELSE ArmBefore(a, b)

\* Array.prototype.sort (stable): an element goes to the place after the
\* elements the comparator puts before it and the earlier ones it ties with;
\* a sequence that is in order already is returned as it is
SortBy(s, by) ==
    IF \A i \in 1..(Len(s) - 1) : ~Before(by, s[i + 1], s[i]) THEN s
    ELSE LET rank == [i \in 1..Len(s) |->
                         Cardinality({j \in 1..Len(s) :
                             \/ Before(by, s[j], s[i])
                             \/ (j < i /\ ~Before(by, s[i], s[j]))})]
         IN  [r \in 1..Len(s) |-> s[CHOOSE i \in 1..Len(s) : rank[i] = r - 1]]

\* the body of armBuckets.forEach for one bucket: the arm it pushes
ArmOfBucket(bucket, armIndex, stepsPerRotation, angleDeltaDeg, numPredictions) ==
    LET points == SortBy(bucket, "index")
    IN  [armIndex |-> armIndex, points |-> points,
         predictions |->
             IF Len(points) >= MinArmPoints
             THEN predictArmExtension(points, stepsPerRotation, angleDeltaDeg,
                                      numPredictions)
             ELSE <<>>]

\* armBuckets after primes.forEach: one [key, points] per key, in the order
\* the keys were inserted
Buckets(points, armIndexes, keys) ==
    [j \in 1..Len(keys) |->
        [key |-> keys[j], points |-> BucketPoints(points, armIndexes, keys[j])]]
    \o <<>>

\* Variant that pushes an arm for every bucket.
KeptBuckets_All(buckets) == buckets

\* the buckets whose arm is pushed: points.length >= 2
KeptBuckets(buckets) ==
    SelectSeq(buckets, LAMBDA b : Len(b.points) >= MinArmPoints)

\* arms after armBuckets.forEach, before the final sort
ArmsOfBuckets(kept, stepsPerRotation, angleDeltaDeg, numPredictions) ==
    [a \in 1..Len(kept) |->
        ArmOfBucket(kept[a].points, kept[a].key, stepsPerRotation,
                    angleDeltaDeg, numPredictions)] \o <<>>

\* detectSpiralArms from the arm indexes of the indices on
ArmsByIndexes(primeList, armIndexes, stepsPerRotation, angleDeltaDeg, numPredictions) ==
    SortBy(ArmsOfBuckets(KeptBuckets(Buckets(AllPoints(primeList, angleDeltaDeg),
                                             armIndexes,
                                             BucketKeys(armIndexes))),
                         stepsPerRotation, angleDeltaDeg, numPredictions),
           "armIndex")

\* detectSpiralArms from stepsPerRotation on
ArmsBySteps(primeList, stepsPerRotation, angleDeltaDeg, numPredictions) ==
    ArmsByIndexes(primeList, ArmIndexes(Len(primeList), stepsPerRotation),
                  stepsPerRotation, angleDeltaDeg, numPredictions)

detectSpiralArms(primeList, angleDeltaDeg, numPredictions) ==
    IF Len(primeList) < MinPrimesForArms THEN <<>>
    ELSE ArmsBySteps(primeList, StepsPerRotation(angleDeltaDeg), angleDeltaDeg,
                     numPredictions)

---------------------------------------------------------------------------
(* calculateAccuracyWithExtended, PrimeVisualization.tsx lines 206-272 *)

MinPrimesForAccuracy == 10     \* actualPrimes.length < 10: the zero report
ThresholdFloor == Rat(3, 10)   \* 0.3
ThresholdShare == Rat(1, 20)   \* 0.05
Percent == 100

JsAbs(a) == IF a.k = "NaN" THEN a ELSE [a EXCEPT !.n = Abs(a.n)]

\* Math.max(a, b): NaN as soon as one argument is NaN
MathMax(a, b) == IF IsNaN(a) \/ IsNaN(b) THEN NaN ELSE IF JsLt(a, b) THEN b ELSE a

\* sqrt(x * x + y * y) of the point (radius, angle): |radius|, or NaN when the
\* cosine and sine of the angle are NaN (an angle that is not finite)
PolarNorm(radius, angle) ==
    IF IsFinite(angle) THEN JsAbs(radius) ELSE NaN

\* the distance of two points on the same ray: both positions are computed
\* from the same angle expression, so sqrt(dx^2 + dy^2) = |r1 - r2|
RayDistance(r1, r2, angle) ==
    IF IsFinite(angle) THEN JsAbs(JsAdd(r1, JsMul(Num(-1), r2))) ELSE NaN

\* extendedPrimes[i]: undefined (NaN in arithmetic) outside 0..length-1
ElementAt(list, i) ==
    IF IsInteger(i) /\ 0 <= i.n /\ i.n < Len(list) THEN Num(list[i.n + 1])
    ELSE NaN

\* threshold: Math.max(0.3, avgRadius * 0.05), avgRadius the mean of the
\* norm of the predicted position and actualRadius
Threshold(predictedNorm, actualRadius) ==
    MathMax(ThresholdFloor,
            JsMul(JsDiv(JsAdd(predictedNorm, actualRadius), Num(2)),
                  ThresholdShare))

\* Variant that counts a prediction at the threshold as correct.
Score_Inclusive(predictedIndex, distance, threshold, length) ==
    [counted |-> JsLt(predictedIndex, Num(length)),
     predictedIndex |-> predictedIndex,
     distance |-> distance,
     threshold |-> threshold,
     correct |-> JsLe(distance, threshold)]

\* what the body of arm.predictions.forEach finds for one prediction:
\* whether predictedIndex < extendedPrimes.length, and the distance, the
\* threshold and distance < threshold as the branch computes them
Score(predictedIndex, distance, threshold, length) ==
    [counted |-> JsLt(predictedIndex, Num(length)),
     predictedIndex |-> predictedIndex,
     distance |-> distance,
     threshold |-> threshold,
     correct |-> JsLt(distance, threshold)]

ScoreAtRadius(prediction, predictedIndex, actualRadius, angleDeltaDeg, length) ==
    Score(predictedIndex,
          RayDistance(prediction.radius, actualRadius,
                      JsMul(predictedIndex, angleDeltaDeg)),
          Threshold(PolarNorm(prediction.radius, prediction.angle), actualRadius),
          length)

ScoreAtIndex(prediction, predictedIndex, angleDeltaDeg, extendedPrimes) ==
    ScoreAtRadius(prediction, predictedIndex,
                  JsMul(RadiusScale, ElementAt(extendedPrimes, predictedIndex)),
                  angleDeltaDeg, Len(extendedPrimes))

\* Variant that counts the steps of the scored index from 0.
ScoreOf_FromZero(prediction, predIdx, lastPoint, stepsPerRotation, angleDeltaDeg, extendedPrimes) ==
    ScoreAtIndex(prediction,
                 JsAdd(Num(lastPoint.index),
                       JsMul(Num(predIdx), stepsPerRotation)),
                 angleDeltaDeg, extendedPrimes)

\* predIdx is counted from 0
ScoreOf(prediction, predIdx, lastPoint, stepsPerRotation, angleDeltaDeg, extendedPrimes) ==
    ScoreAtIndex(prediction,
                 JsAdd(Num(lastPoint.index),
                       JsMul(Num(predIdx + 1), stepsPerRotation)),
                 angleDeltaDeg, extendedPrimes)

\* the scores of the predictions of one arm, in forEach order
ArmScores(arm, stepsPerRotation, angleDeltaDeg, extendedPrimes) ==
    IF Len(arm.points) = 0 THEN <<>>
    ELSE [j \in 1..Len(arm.predictions) |->
             ScoreOf(arm.predictions[j], j - 1, arm.points[Len(arm.points)],
                     stepsPerRotation, angleDeltaDeg, extendedPrimes)]

\* totalPredictions, correctPredictions and totalDistance after the scores
\* from..to of one arm, starting from acc
RECURSIVE TallyArm(_, _, _, _)
TallyArm(scores, from, to, acc) ==
    IF from > to THEN acc
    ELSE TallyArm(scores, from + 1, to,
                  IF scores[from].counted
                  THEN [totalPredictions |-> acc.totalPredictions + 1,
                        totalDistance |->
                            JsAdd(acc.totalDistance, scores[from].distance),
                        correctPredictions |->
                            acc.correctPredictions
                            + (IF scores[from].correct THEN 1 ELSE 0)]
                  ELSE acc)

\* arms.forEach from arm a on (acc # acc is FALSE: it has acc evaluated
\* before the descent)
RECURSIVE Tally(_, _, _, _, _, _)
Tally(arms, a, stepsPerRotation, angleDeltaDeg, extendedPrimes, acc) ==
    IF acc # acc \/ a > Len(arms) THEN acc
    ELSE LET scores == ArmScores(arms[a], stepsPerRotation, angleDeltaDeg,
                                 extendedPrimes)
         IN  Tally(arms, a + 1, stepsPerRotation, angleDeltaDeg,
                   extendedPrimes, TallyArm(scores, 1, Len(scores), acc))

ZeroReport ==
    [totalPredictions |-> 0, correctPredictions |-> 0,
     averageDistance |-> Num(0), accuracy |-> Num(0)]

NoTally ==
    [totalPredictions |-> 0, totalDistance |-> Num(0), correctPredictions |-> 0]

\* Variant that divides by totalPredictions also when it is 0.
ReportOf_Unguarded(t) ==
    [totalPredictions |-> t.totalPredictions,
     correctPredictions |-> t.correctPredictions,
     averageDistance |-> JsDiv(t.totalDistance, Num(t.totalPredictions)),
     accuracy |->
         JsMul(JsDiv(Num(t.correctPredictions), Num(t.totalPredictions)),
               Num(Percent))]

\* the report returned for the totals t
ReportOf(t) ==
    [totalPredictions |-> t.totalPredictions,
     correctPredictions |-> t.correctPredictions,
     averageDistance |->
         IF t.totalPredictions > 0
         THEN JsDiv(t.totalDistance, Num(t.totalPredictions))
         ELSE Num(0),
     accuracy |->
         IF t.totalPredictions > 0
         THEN JsMul(Rat(t.correctPredictions, t.totalPredictions), Num(Percent))
         ELSE Num(0)]

calculateAccuracyWithExtended_NoMinimum(actualPrimes, extendedPrimes, angleDeltaDeg, numPredictions) ==
    ReportOf(Tally(detectSpiralArms(actualPrimes, angleDeltaDeg, numPredictions),
                   1, StepsPerRotation(angleDeltaDeg), angleDeltaDeg,
                   extendedPrimes, NoTally))

calculateAccuracyWithExtended(actualPrimes, extendedPrimes, angleDeltaDeg, numPredictions) ==
    IF Len(actualPrimes) < MinPrimesForAccuracy THEN ZeroReport
    ELSE ReportOf(Tally(detectSpiralArms(actualPrimes, angleDeltaDeg,
                                         numPredictions),
                        1, StepsPerRotation(angleDeltaDeg), angleDeltaDeg,
                        extendedPrimes, NoTally))

---------------------------------------------------------------------------
(* createVisualization, PrimeVisualization.tsx lines 805-849: the position  *)
(* of the sphere of each prime, in polar form                              *)

SpherePosition(primeList, index, angleDeltaDeg) ==
    [prime |-> primeList[index + 1], index |-> index,
     angle |-> JsMul(Num(index), angleDeltaDeg),
     radius |-> JsMul(RadiusScale, Num(primeList[index + 1]))]

\* the spheres created by primes.forEach; none when primes is empty
createVisualization(primeList, angleDeltaDeg) ==
    IF Len(primeList) = 0 THEN <<>>
    ELSE [i \in 1..Len(primeList) |->
             SpherePosition(primeList, i - 1, angleDeltaDeg)] \o <<>>

---------------------------------------------------------------------------
(* part_002 (the earlier PrimeVisualization): predictNextPoint, arms by     *)
(* angular tolerance (detectSpiralArms, here detectSpiralArmsAngular) and   *)
(* calculateAccuracy, lines 31-234.  A position is kept in polar form: x   *)
(* and y are radius * cos(angle) and radius * sin(angle), angles in        *)
(* degrees.                                                                *)

MinPointsToPredict == 3        \* points.length < 3: null
MinPrimesForAngularArms == 10  \* primes.length < 10: no arm
MinAngularArmPoints == 5       \* armPoints.length >= 5
AngularPredictions == 3        \* const numPredictions = 3
HalfTurn == 180
AngularTolerance == Rat(1, 10) \* 0.1 radians
CorrectDistance == Rat(1, 2)   \* 0.5
PiUpper == Rat(31416, 10000)   \* Math.PI, rounded up in the 4th place

\* Math.atan2(y, x) of a point at `angle` degrees with a radius > 0, in
\* degrees: the angle brought into (-180, 180]
ThetaOf(angle) ==
    LET r == JsAdd(angle, Num(-FullTurn * (angle.n \div (FullTurn * angle.d))))
    IN  IF JsGt(r, Num(HalfTurn)) THEN JsAdd(r, Num(-FullTurn)) ELSE r

\* thetaDiff: |a - b|, and 2 * PI minus it when it is more than PI
ThetaDiff(a, b) ==
    LET d == JsAbs(JsAdd(a, JsMul(Num(-1), b)))
    IN  IF JsGt(d, Num(HalfTurn)) THEN JsAdd(Num(FullTurn), JsMul(Num(-1), d))
        ELSE d

\* thetaDiff < angularTolerance, thetaDiff in degrees:
\* thetaDiff * PI / 180 < 0.1.  No thetaDiff with a denominator below 1000
\* lies between 18 / PiUpper and 18 / PI.
WithinTolerance(thetaDiff) ==
    JsLt(JsMul(thetaDiff, PiUpper), JsMul(Num(HalfTurn), AngularTolerance))

\* the entry of primePositions for primes[index] (index counted from 0)
PrimePosition(primeList, index, angleDeltaDeg) ==
    [prime |-> primeList[index + 1], index |-> index,
     angle |-> JsMul(Num(index), angleDeltaDeg),
     radius |-> JsMul(RadiusScale, Num(primeList[index + 1])),
     theta |-> ThetaOf(JsMul(Num(index), angleDeltaDeg))]

PrimePositions(primeList, angleDeltaDeg) ==
    [i \in 1..Len(primeList) |-> PrimePosition(primeList, i - 1, angleDeltaDeg)]
    \o <<>>

\* the for loops of predictNextPoint: `steps` times diff += accel and
\* value += diff
RECURSIVE Extrapolate(_, _, _, _)
Extrapolate(steps, accel, value, diff) ==
    IF steps <= 0 THEN value
    ELSE Extrapolate(steps - 1, accel, JsAdd(value, JsAdd(diff, accel)),
                     JsAdd(diff, accel))

Minus(a, b) == JsAdd(a, JsMul(Num(-1), b))

\* predictedRadius, after `if (predictedRadius < 0)`
PredictedRadius(r1, r2, r3, stepsAhead) ==
    LET grown == Extrapolate(stepsAhead, Minus(Minus(r3, r2), Minus(r2, r1)),
                             r3, Minus(r3, r2))
    IN  IF JsLt(grown, Num(0))
        THEN JsAdd(r3, JsMul(Num(stepsAhead), Minus(r3, r2)))
        ELSE grown

\* the prediction from the last three points p1, p2, p3: it lies on the ray
\* of p3 (dirX, dirY is p3 divided by its norm r3)
NextPointFrom(p1, p2, p3, stepsAhead) ==
    [isNull |-> FALSE,
     radius |->
         JsMul(JsDiv(p3.radius, PolarNorm(p3.radius, p3.angle)),
               PredictedRadius(PolarNorm(p1.radius, p1.angle),
                               PolarNorm(p2.radius, p2.angle),
                               PolarNorm(p3.radius, p3.angle), stepsAhead)),
     angle |-> p3.angle,
     predictedPrime |->
         MathRound(Extrapolate(stepsAhead,
                               Num((p3.prime - p2.prime) - (p2.prime - p1.prime)),
                               Num(p3.prime), Num(p3.prime - p2.prime)))]

predictNextPoint(points, stepsAhead) ==
    IF Len(points) < MinPointsToPredict THEN Null
    ELSE NextPointFrom(points[Len(points) - 2], points[Len(points) - 1],
                       points[Len(points)], stepsAhead)

\* armPoints of a seed: the points not used yet whose theta is within the
\* tolerance of the seed's, in index order
ArmPointsOf(positions, seed, used) ==
    SelectSeq(positions,
              LAMBDA p : /\ p.index \notin used
                         /\ WithinTolerance(ThetaDiff(p.theta, seed.theta)))

\* armPoints.sort((a, b) => a.radius - b.radius), a stable sort
SortByRadius(s) ==
    IF \A i \in 1..(Len(s) - 1) : ~JsLt(s[i + 1].radius, s[i].radius) THEN s
    ELSE LET rank == [i \in 1..Len(s) |->
                         Cardinality({j \in 1..Len(s) :
                             \/ JsLt(s[j].radius, s[i].radius)
                             \/ (j < i /\ ~JsLt(s[i].radius, s[j].radius))})]
         IN  [r \in 1..Len(s) |-> s[CHOOSE i \in 1..Len(s) : rank[i] = r - 1]]

\* the predictions pushed for k = 0..numPredictions-1: those that are not null
PredictionsOf(points) ==
    SelectSeq([k \in 1..AngularPredictions |-> predictNextPoint(points, k)],
              LAMBDA prediction : ~prediction.isNull)

\* the arm pushed for the sorted armPoints
AngularArm(points) == [points |-> points, predictions |-> PredictionsOf(points)]

\* Variant that leaves the points of a discarded group unused.
UsedAfter_KeptOnly(used, armPoints) ==
    IF Len(armPoints) >= MinAngularArmPoints
    THEN used \cup {armPoints[i].index : i \in 1..Len(armPoints)}
    ELSE used

\* used after the inner forEach: every point pushed to armPoints is added
UsedAfter(used, armPoints) ==
    used \cup {armPoints[i].index : i \in 1..Len(armPoints)}

\* Variant that keeps a group of 3 points.
ArmsAfter_AtLeastThree(arms, armPoints) ==
    IF Len(armPoints) >= 3
    THEN Append(arms, AngularArm(SortByRadius(armPoints)))
    ELSE arms

ArmsAfter(arms, armPoints) ==
    IF Len(armPoints) >= MinAngularArmPoints
    THEN Append(arms, AngularArm(SortByRadius(armPoints)))
    ELSE arms

\* primePositions.forEach((seed, seedIndex) => ...) from seedIndex on
\* (seedIndex counted from 1)
RECURSIVE ArmsFromSeed(_, _, _, _)
ArmsFromSeed(positions, seedIndex, used, arms) ==
    IF seedIndex > Len(positions) THEN arms
    ELSE IF (seedIndex - 1) \in used
    THEN ArmsFromSeed(positions, seedIndex + 1, used, arms)
    ELSE LET armPoints == ArmPointsOf(positions, positions[seedIndex], used)
         IN  ArmsFromSeed(positions, seedIndex + 1, UsedAfter(used, armPoints),
                          ArmsAfter(arms, armPoints))

detectSpiralArmsAngular(primeList, angleDeltaDeg) ==
    IF Len(primeList) < MinPrimesForAngularArms THEN <<>>
    ELSE ArmsFromSeed(PrimePositions(primeList, angleDeltaDeg), 1, {}, <<>>)

\* primePositionMap after allPrimes.forEach: one entry per prime value, in
\* the order the keys were first set, holding the position set last
PrimePositionMap(allPrimes, angleDeltaDeg) ==
    LET firsts == SelectSeq([i \in 1..Len(allPrimes) |-> i],
                            LAMBDA i : \A j \in 1..(i - 1) :
                                           allPrimes[j] # allPrimes[i])
        lastOf(i) == CHOOSE j \in 1..Len(allPrimes) :
                         /\ allPrimes[j] = allPrimes[i]
                         /\ \A h \in (j + 1)..Len(allPrimes) :
                                allPrimes[h] # allPrimes[i]
    IN  [e \in 1..Len(firsts) |->
            [prime |-> allPrimes[firsts[e]],
             radius |-> JsMul(RadiusScale, Num(allPrimes[firsts[e]])),
             angle |-> JsMul(Num(lastOf(firsts[e]) - 1), angleDeltaDeg)]]
        \o <<>>

\* a square root that is not rational: the model's numbers do not hold it
Surd(radicand) == [k |-> "surd", radicand |-> radicand]

\* Math.sqrt(dx^2 + dy^2) for the points (r1, a1) and (r2, a2): |r1 - r2|
\* on one ray and |r1 + r2| on opposite rays
PlaneDistance(r1, a1, r2, a2) ==
    IF ThetaDiff(ThetaOf(a1), ThetaOf(a2)) = Num(0) THEN JsAbs(Minus(r1, r2))
    ELSE IF ThetaDiff(ThetaOf(a1), ThetaOf(a2)) = Num(HalfTurn)
    THEN JsAbs(JsAdd(r1, r2))
    ELSE Surd(<<r1, a1, r2, a2>>)

\* primePositionMap.get(prime): the entry, or Null for undefined
MapGet(map, prime) ==
    IF \E e \in 1..Len(map) : map[e].prime = prime
    THEN map[CHOOSE e \in 1..Len(map) : map[e].prime = prime]
    ELSE Null

\* minDistance after primePositionMap.forEach from entry e on
RECURSIVE MinDistance(_, _, _, _)
MinDistance(prediction, map, e, minDistance) ==
    IF minDistance # minDistance \/ e > Len(map) THEN minDistance
    ELSE MinDistance(prediction, map, e + 1,
                     IF JsLt(PlaneDistance(prediction.radius, prediction.angle,
                                           map[e].radius, map[e].angle),
                             minDistance)
                     THEN PlaneDistance(prediction.radius, prediction.angle,
                                        map[e].radius, map[e].angle)
                     ELSE minDistance)

\* the body of arm.predictions.forEach, given actualPos: the totals after it
TallyPrediction(prediction, actualPos, map, acc) ==
    IF "isNull" \notin DOMAIN actualPos
    THEN [totalPredictions |-> acc.totalPredictions + 1,
          totalDistance |->
              JsAdd(acc.totalDistance,
                    PlaneDistance(prediction.radius, prediction.angle,
                                  actualPos.radius, actualPos.angle)),
          correctPredictions |->
              acc.correctPredictions
              + (IF JsLt(PlaneDistance(prediction.radius, prediction.angle,
                                       actualPos.radius, actualPos.angle),
                         CorrectDistance)
                 THEN 1 ELSE 0)]
    ELSE [totalPredictions |-> acc.totalPredictions + 1,
          totalDistance |->
              JsAdd(acc.totalDistance,
                    MinDistance(prediction, map, 1, PosInfinity)),
          correctPredictions |-> acc.correctPredictions]

\* arm.predictions.forEach from prediction j on
RECURSIVE TallyPredictions(_, _, _, _)
TallyPredictions(predictions, j, map, acc) ==
    IF acc # acc \/ j > Len(predictions) THEN acc
    ELSE TallyPredictions(predictions, j + 1, map,
                          TallyPrediction(predictions[j],
                                          MapGet(map, predictions[j].predictedPrime.n),
                                          map, acc))

\* arms.forEach from arm a on
RECURSIVE TallyArms(_, _, _, _)
TallyArms(arms, a, map, acc) ==
    IF acc # acc \/ a > Len(arms) THEN acc
    ELSE TallyArms(arms, a + 1, map,
                   TallyPredictions(arms[a].predictions, 1, map, acc))

\* the report is built from the totals as calculateAccuracyWithExtended
\* builds it (lines 225-233)
calculateAccuracy(arms, allPrimes, angleDeltaDeg) ==
    ReportOf(TallyArms(arms, 1, PrimePositionMap(allPrimes, angleDeltaDeg),
                       NoTally))

---------------------------------------------------------------------------
(* ThreeGrid.tsx: the state, the sieve effect and the change handlers;     *)
(* PrimeVisualization.tsx lines 586-773: the prediction effect             *)

InitialPrimeCount == 300
InitialAngleDelta == 36
InitialPredictionCount == 3
MaxPrimeCountInput == 100000   \* value <= 100000
MaxAngleDeltaInput == 180      \* value < 180
MaxPredictionCountInput == 20  \* value <= 20
MinPrimesForPredictions == 10  \* primes.length > 10

\* p has no divisor q in from..sqrt(p)
RECURSIVE NoDivisorFrom(_, _)
NoDivisorFrom(p, q) ==
    IF q * q > p THEN TRUE
    ELSE IF p % q = 0 THEN FALSE ELSE NoDivisorFrom(p, q + 1)

IsPrimeNumber(p) == p > 1 /\ NoDivisorFrom(p, 2)

RECURSIVE NextPrimeFrom(_)
NextPrimeFrom(c) == IF IsPrimeNumber(c) THEN c ELSE NextPrimeFrom(c + 1)

\* the prime numbers after the prime list `before`, k more of them
\* (before # before is FALSE: it has `before` evaluated before the descent)
RECURSIVE MorePrimes(_, _)
MorePrimes(before, k) ==
    IF before # before \/ k <= 0 THEN before
    ELSE IF k = 1
    THEN Append(before, NextPrimeFrom(IF before = <<>> THEN 2
                                      ELSE before[Len(before)] + 1))
    ELSE MorePrimes(MorePrimes(before, k \div 2), k - (k \div 2))

\* the first n values of the prime generator PostponedSieve()
SieveTake(n) == MorePrimes(<<>>, n)

\* the sieve effect: the loop runs while i < primeCount
SieveEffect(count) ==
    IF IsFinite(count) /\ count.n > 0
    THEN SieveTake(IF count.d = 1 THEN count.n ELSE (count.n \div count.d) + 1)
    ELSE <<>>

\* the index whose actual prime the prediction effect draws next to
\* prediction predIndex (counted from 0) of an arm (lines 726-727)
ActualSphereIndex(lastArmPoint, predIndex, stepsPerRotation) ==
    JsAdd(Num(lastArmPoint.index), JsMul(Num(predIndex + 1), stepsPerRotation))

\* The prediction effect: what it leaves in predictionGroupRef.current and in
\* accuracyState, the pipeline functions its body calls, in the order of the
\* calls (lines 626, 629, 632), and the primes array as its calls leave it.  The group is
\* kept as the values its meshes are built from.
EffectOutcome(stepsPerRotation, extended, angleDeltaDeg, numPredictions) ==
    [predictionGroup |->
        [isNull |-> FALSE, stepsPerRotation |-> stepsPerRotation,
         extendedPrimes |-> extended.returned,
         arms |-> detectSpiralArms(extended.startingPrimes, angleDeltaDeg,
                                   numPredictions)],
     accuracyState |->
        calculateAccuracyWithExtended(extended.startingPrimes,
                                      extended.returned, angleDeltaDeg,
                                      numPredictions),
     calls |-> <<"generatePrimesUpTo", "detectSpiralArms",
                 "calculateAccuracyWithExtended">>,
     primes |-> extended.startingPrimes]

\* Variant that lets generatePrimesUpTo push onto the caller's array.
EffectWithSteps_SharedArray(stepsPerRotation, primeList, angleDeltaDeg, numPredictions) ==
    EffectOutcome(stepsPerRotation,
                  generatePrimesUpTo_NoCopy(
                      JsAdd(JsAdd(Num(Len(primeList) - 1),
                                  JsMul(numPredictions, stepsPerRotation)),
                            Num(1)),
                      primeList),
                  angleDeltaDeg, numPredictions)

\* Variant that asks generatePrimesUpTo for maxPredictionIndex primes.
EffectWithSteps_OneShort(stepsPerRotation, primeList, angleDeltaDeg, numPredictions) ==
    EffectOutcome(stepsPerRotation,
                  generatePrimesUpTo(
                      JsAdd(Num(Len(primeList) - 1),
                            JsMul(numPredictions, stepsPerRotation)),
                      primeList),
                  angleDeltaDeg, numPredictions)

\* maxPredictionIndex = primes.length - 1 + predictionCount * stepsPerRotation
\* and extendedPrimes = generatePrimesUpTo(maxPredictionIndex + 1, primes)
EffectWithSteps(stepsPerRotation, primeList, angleDeltaDeg, numPredictions) ==
    EffectOutcome(stepsPerRotation,
                  generatePrimesUpTo(
                      JsAdd(JsAdd(Num(Len(primeList) - 1),
                                  JsMul(numPredictions, stepsPerRotation)),
                            Num(1)),
                      primeList),
                  angleDeltaDeg, numPredictions)

\* the effect with the arms detected first and nothing else done without arms
PredictionEffect_SkipsWithoutArms(show, primeList, angleDeltaDeg, numPredictions) ==
    IF /\ show /\ Len(primeList) > MinPrimesForPredictions
       /\ detectSpiralArms(primeList, angleDeltaDeg, numPredictions) # <<>>
    THEN EffectWithSteps(StepsPerRotation(angleDeltaDeg), primeList,
                         angleDeltaDeg, numPredictions)
    ELSE [predictionGroup |-> Null, accuracyState |-> ZeroReport,
          calls |-> <<>>, primes |-> primeList]

PredictionEffect(show, primeList, angleDeltaDeg, numPredictions) ==
    IF show /\ Len(primeList) > MinPrimesForPredictions
    THEN EffectWithSteps(StepsPerRotation(angleDeltaDeg), primeList,
                         angleDeltaDeg, numPredictions)
    ELSE [predictionGroup |-> Null, accuracyState |-> Null, calls |-> <<>>,
          primes |-> primeList]

\* The state the component settles in after the setter calls of a handler.
\* A setter called with the value the state holds already schedules no
\* render, so no effect runs; otherwise the effects whose dependencies
\* changed run: the sieve effect on primeCount, the prediction effect on
\* showPredictions, primes, angleDelta and predictionCount.
Settle(count, angle, numPredictions, show) ==
    IF /\ count = primeCount /\ angle = angleDelta
       /\ numPredictions = predictionCount /\ show = showPredictions
    THEN UNCHANGED <<primeCount, angleDelta, predictionCount, showPredictions,
                     primes, predictionGroup, accuracyState, effectCalls>>
    ELSE \E e \in {PredictionEffect(show,
                                    IF count = primeCount THEN primes
                                    ELSE SieveEffect(count),
                                    angle, numPredictions)} :
             /\ primeCount' = count
             /\ angleDelta' = angle
             /\ predictionCount' = numPredictions
             /\ showPredictions' = show
             /\ primes' = e.primes
             /\ predictionGroup' = e.predictionGroup
             /\ accuracyState' = e.accuracyState
             /\ effectCalls' = e.calls

\* the conditions under which a handler stores the parsed value
PrimeCountAccepted(value) ==
    ~IsNaN(value) /\ JsGt(value, Num(0)) /\ JsLe(value, Num(MaxPrimeCountInput))
\* Variant without the upper bound.
AngleDeltaAccepted_NoUpperBound(value) ==
    ~IsNaN(value) /\ JsGt(value, Num(0))

\* Variant without the lower bound.
AngleDeltaAccepted_NoLowerBound(value) ==
    ~IsNaN(value) /\ JsLt(value, Num(MaxAngleDeltaInput))

AngleDeltaAccepted(value) ==
    ~IsNaN(value) /\ JsGt(value, Num(0)) /\ JsLt(value, Num(MaxAngleDeltaInput))
PredictionCountAccepted(value) ==
    ~IsNaN(value) /\ JsGe(value, Num(1))
    /\ JsLe(value, Num(MaxPredictionCountInput))

---------------------------------------------------------------------------
(* App.jsx: the state of the 2D canvas; ControlPanel.jsx: the Angle Delta  *)
(* and Trace Route fields                                                  *)

\* scale is kept as the number of tenths taken off and added so far: the
\* number (9/10)^down * (11/10)^up
ScaleOf(down, up) == [k |-> "scale", down |-> down, up |-> up]

InitialCanvasState ==
    [xPosition |-> Num(0), yPosition |-> Num(0), xHome |-> Num(0),
     yHome |-> Num(0), scale |-> ScaleOf(0, 0), angleDelta |-> Num(36),
     traceRoute |-> Num(0), mouseDown |-> FALSE]

\* inputProps: e.target.min and e.target.max of the field named `name`
FieldMin(name) == <<"0">>
FieldMax(name) ==
    IF name = "angleDelta" THEN <<"3", "6", "0">> ELSE <<"3", "6">>

\* the number a string of decimal digits is converted to when Math.min and
\* Math.max take it as an argument (the empty string gives 0, a string
\* that is no numeral NaN)
ToNumber(str) ==
    IF DigitRun(str, 10) = Len(str) THEN Num(DigitsValue(str, 10, 0)) ELSE NaN

\* Math.min(a, b): NaN as soon as one argument is NaN
MathMin(a, b) == IF IsNaN(a) \/ IsNaN(b) THEN NaN ELSE IF JsLt(b, a) THEN b ELSE a

\* Variant that falls back on the minimum when the value is NaN.
boundValue_NoNaN(val, min, max) ==
    IF IsNaN(val) THEN ToNumber(min)
    ELSE MathMax(MathMin(val, ToNumber(max)), ToNumber(min))

\* boundValue = (val, min, max) => Math.max(Math.min(val, max), min)
boundValue(val, min, max) ==
    MathMax(MathMin(val, ToNumber(max)), ToNumber(min))

\* Math.floor
MathFloor(a) == IF a.k = "num" THEN Num(a.n \div a.d) ELSE a

\* the while loop of the tracer from `location` on: the indices of points it
\* reads; points[location] of an index that is no entry is undefined and
\* reading its x throws a TypeError; a step of 0 never ends
RECURSIVE TracerLoop(_, _, _, _)
TracerLoop(location, totalBends, length, visited) ==
    IF ~JsLt(location, Num(length))
    THEN [threw |-> FALSE, diverges |-> FALSE, visited |-> visited]
    ELSE IF ~(IsInteger(location) /\ location.n >= 0)
    THEN [threw |-> TRUE, diverges |-> FALSE, visited |-> visited]
    ELSE IF JsAdd(location, totalBends) = location
    THEN [threw |-> FALSE, diverges |-> TRUE, visited |-> Append(visited, location.n)]
    ELSE TracerLoop(JsAdd(location, totalBends), totalBends, length,
                    Append(visited, location.n))

\* draw: points holds the origin and one entry per prime; the tracer starts
\* at traceRoute and steps by totalBends = Math.floor(360 / angleDelta)
draw(state, primeList) ==
    TracerLoop(state.traceRoute, MathFloor(JsDiv(Num(360), state.angleDelta)),
               Len(primeList) + 1, <<>>)

MaxCanvasPrimes == 13  \* the number of primes of primes.json taken
MaxPointers == 2       \* the longest pointers list followed
MaxDrag == 1           \* the farthest the canvas is dragged, in pixels
MaxScaleDown == 66     \* the most tenths taken off the scale
MaxScaleUp == 25       \* the most tenths added to the scale
MaxMixedScale == 1     \* the tenths of one direction next to the other's

\* the primes of primes.json the canvas draws
CanvasPrimes == SieveTake(MaxCanvasPrimes)

\* an error thrown by the draw effect is caught by no error boundary: React
\* unmounts App and no handler runs any more
Mounted == ~drawn.threw

\* callAction for an input or change event of the field `name` whose value
\* is `text`
callAction(name, text) ==
    /\ Mounted
    /\ canvasState' =
           [canvasState EXCEPT ![name] = boundValue(parseFloat(text),
                                                   FieldMin(name),
                                                   FieldMax(name))]
    /\ drawn' = draw(canvasState', CanvasPrimes)
    /\ lastEvent' = [handler |-> "callAction", name |-> name]
    /\ UNCHANGED <<primeCount, angleDelta, predictionCount, showPredictions,
                   primes, predictionGroup, accuracyState, effectCalls,
                   pointers, previousDistance, scene, firstResults, call, ret>>

\* 0.001 < (9/10)^down * (11/10)^up, decided on the logarithms:
\* -ln(0.001) = 6.9077552..., -ln(0.9) = 0.10536051..., ln(1.1) =
\* 0.09531017...; each is enclosed between two multiples of 10^-7 and the
\* comparison is taken only where both ends agree
AboveMinScale(down, up) ==
    CASE down * 1053606 - up * 953101 < 69077552 -> TRUE
      [] down * 1053605 - up * 953102 > 69077553 -> FALSE

\* (9/10)^down * (11/10)^up < 10, with ln(10) = 2.3025850...
BelowMaxScale(down, up) ==
    CASE up * 953102 - down * 1053605 < 23025850 -> TRUE
      [] up * 953101 - down * 1053606 > 23025851 -> FALSE

\* Variant that moves the scale with the sign of deltaY.
ScaleAfter_WithSign(scale, deltaY) ==
    IF deltaY < 0
    THEN IF AboveMinScale(scale.down + 1, scale.up)
              /\ BelowMaxScale(scale.down + 1, scale.up)
         THEN ScaleOf(scale.down + 1, scale.up) ELSE scale
    ELSE IF deltaY > 0
    THEN IF AboveMinScale(scale.down, scale.up + 1)
              /\ BelowMaxScale(scale.down, scale.up + 1)
         THEN ScaleOf(scale.down, scale.up + 1) ELSE scale
    ELSE scale

\* the scale updateScale stores: diff = scale - sign(deltaY) * scale / 10
\* where 0.001 < diff < 10; deltaY / Math.abs(deltaY) is NaN for deltaY = 0,
\* and no comparison with NaN holds
ScaleAfter(scale, deltaY) ==
    IF deltaY > 0
    THEN IF AboveMinScale(scale.down + 1, scale.up)
              /\ BelowMaxScale(scale.down + 1, scale.up)
         THEN ScaleOf(scale.down + 1, scale.up) ELSE scale
    ELSE IF deltaY < 0
    THEN IF AboveMinScale(scale.down, scale.up + 1)
              /\ BelowMaxScale(scale.down, scale.up + 1)
         THEN ScaleOf(scale.down, scale.up + 1) ELSE scale
    ELSE scale

\* the states followed: the counters of the scale and the drag are capped
CanvasWithin(state) ==
    /\ state.scale.down <= MaxScaleDown /\ state.scale.up <= MaxScaleUp
    /\ state.scale.down <= MaxMixedScale \/ state.scale.up <= MaxMixedScale
    /\ JsLe(JsAbs(state.xPosition), Num(MaxDrag))
    /\ JsLe(JsAbs(state.yPosition), Num(MaxDrag))

\* updateScale for a wheel event
updateScale(deltaY) ==
    /\ Mounted
    /\ canvasState' =
           [canvasState EXCEPT !.scale = ScaleAfter(canvasState.scale, deltaY)]
    /\ CanvasWithin(canvasState')
    /\ drawn' = draw(canvasState', CanvasPrimes)
    /\ lastEvent' = [handler |-> "updateScale", deltaYs |-> <<deltaY>>]
    /\ UNCHANGED <<primeCount, angleDelta, predictionCount, showPredictions,
                   primes, predictionGroup, accuracyState, effectCalls,
                   pointers, previousDistance, scene, firstResults, call, ret>>

\* resetPosition, for a resize of the window and for the Recenter button
resetPosition ==
    /\ Mounted
    /\ canvasState' =
           [canvasState EXCEPT !.xPosition = Num(0), !.yPosition = Num(0),
                               !.xHome = Num(0), !.yHome = Num(0)]
    /\ drawn' = draw(canvasState', CanvasPrimes)
    /\ lastEvent' = [handler |-> "resetPosition"]
    /\ UNCHANGED <<primeCount, angleDelta, predictionCount, showPredictions,
                   primes, predictionGroup, accuracyState, effectCalls,
                   pointers, previousDistance, scene, firstResults, call, ret>>

createPointer(pointerId, clientX, clientY) ==
    [id |-> pointerId, x |-> clientX, y |-> clientY]

\* pointers.findIndex((pointer) => pointer.id === e.pointerId), counted
\* from 1; 0 where there is none
FindIndex(list, pointerId) ==
    IF \E i \in 1..Len(list) : list[i].id = pointerId
    THEN CHOOSE i \in 1..Len(list) :
             /\ list[i].id = pointerId
             /\ \A j \in 1..(i - 1) : list[j].id # pointerId
    ELSE 0

\* pointers.splice(idx, 1) and pointers.splice(idx, 1, pointer)
Splice(list, idx, inserted) ==
    SubSeq(list, 1, idx - 1) \o inserted \o SubSeq(list, idx + 1, Len(list))

\* Variant that moves the canvas without moving its home.
Dragged_PositionOnly(state, dx, dy) ==
    [state EXCEPT !.xPosition = JsAdd(state.xHome, Num(dx)),
                  !.yPosition = JsAdd(state.yHome, Num(dy))]

\* the state a pointermove of one tracked pointer stores
Dragged(state, dx, dy) ==
    [state EXCEPT !.xPosition = JsAdd(state.xHome, Num(dx)),
                  !.yPosition = JsAdd(state.yHome, Num(dy)),
                  !.xHome = JsAdd(state.xHome, Num(dx)),
                  !.yHome = JsAdd(state.yHome, Num(dy))]

\* pointerEvent for an event of the given type, pointer id and position;
\* the draw effect runs after every call of setCanvasState.  The updater of
\* the drag reads pointers[idx] when React runs it: at once, before the
\* splice of line 35, or with the next render, after it
pointerEvent(type, pointerId, clientX, clientY) ==
    /\ Mounted
    /\ \E idx \in {FindIndex(pointers, pointerId)} :
          IF type = "pointermove" /\ idx >= 1
          THEN /\ pointers' = Splice(pointers, idx,
                                     <<createPointer(pointerId, clientX, clientY)>>)
               /\ IF Len(pointers) = 2
                  THEN \E currentDistance \in {Abs(pointers[1].x - pointers[2].x)} :
                         /\ previousDistance' = currentDistance
                         /\ IF previousDistance > 0
                            THEN /\ canvasState' =
                                       [canvasState EXCEPT !.scale =
                                           ScaleAfter(canvasState.scale,
                                                      currentDistance - previousDistance)]
                                 /\ drawn' = draw(canvasState', CanvasPrimes)
                            ELSE UNCHANGED <<canvasState, drawn>>
                  ELSE /\ \E former \in {pointers[idx], pointers'[idx]} :
                            canvasState' =
                                Dragged(canvasState, clientX - former.x,
                                        clientY - former.y)
                       /\ drawn' = draw(canvasState', CanvasPrimes)
                       /\ UNCHANGED previousDistance
          ELSE IF type = "pointermove"
          THEN UNCHANGED <<canvasState, pointers, previousDistance, drawn>>
          ELSE IF type = "pointerdown"
          THEN /\ pointers' = Append(pointers,
                                     createPointer(pointerId, clientX, clientY))
               /\ UNCHANGED <<canvasState, previousDistance, drawn>>
          ELSE IF idx >= 1
          THEN /\ pointers' = Splice(pointers, idx, <<>>)
               /\ canvasState' =
                      [canvasState EXCEPT !.xHome = canvasState.xPosition,
                                          !.yHome = canvasState.yPosition]
               /\ drawn' = draw(canvasState', CanvasPrimes)
               /\ UNCHANGED previousDistance
          ELSE UNCHANGED <<canvasState, pointers, previousDistance, drawn>>
    /\ Len(pointers') <= MaxPointers
    /\ CanvasWithin(canvasState')
    /\ lastEvent' =
           [handler |-> "pointerEvent", type |-> type,
            tracked |-> FindIndex(pointers, pointerId) >= 1,
            deltaYs |->
                IF /\ type = "pointermove" /\ FindIndex(pointers, pointerId) >= 1
                   /\ Len(pointers) = 2 /\ previousDistance > 0
                THEN <<Abs(pointers[1].x - pointers[2].x) - previousDistance>>
                ELSE <<>>]
    /\ UNCHANGED <<primeCount, angleDelta, predictionCount, showPredictions,
                   primes, predictionGroup, accuracyState, effectCalls,
                   scene, firstResults, call, ret>>

NoCall == [fn |-> "none"]
\* ret before the call ends, and once it returned the value v; no statement
\* of the four functions throws, so no call ends by an exception
Pending == [pending |-> TRUE]
Returned(v) == [pending |-> FALSE, threw |-> FALSE, value |-> v]

handlePrimeCountChange(text) ==
    \E value \in {parseInt(text)} :
        /\ lastEvent' = [handler |-> "handlePrimeCountChange",
                         stored |-> PrimeCountAccepted(value)]
        /\ IF PrimeCountAccepted(value)
           THEN Settle(value, angleDelta, predictionCount, showPredictions)
           ELSE UNCHANGED <<primeCount, angleDelta, predictionCount,
                            showPredictions, primes, predictionGroup,
                            accuracyState, effectCalls>>
        /\ UNCHANGED <<call, ret, canvasState, pointers, previousDistance, drawn, scene, firstResults>>

handleAngleDeltaChange(text) ==
    \E value \in {parseFloat(text)} :
        /\ lastEvent' = [handler |-> "handleAngleDeltaChange",
                         stored |-> AngleDeltaAccepted(value)]
        /\ IF AngleDeltaAccepted(value)
           THEN Settle(primeCount, value, predictionCount, showPredictions)
           ELSE UNCHANGED <<primeCount, angleDelta, predictionCount,
                            showPredictions, primes, predictionGroup,
                            accuracyState, effectCalls>>
        /\ UNCHANGED <<call, ret, canvasState, pointers, previousDistance, drawn, scene, firstResults>>

handlePredictionCountChange(text) ==
    \E value \in {parseInt(text)} :
        /\ lastEvent' = [handler |-> "handlePredictionCountChange",
                         stored |-> PredictionCountAccepted(value)]
        /\ IF PredictionCountAccepted(value)
           THEN Settle(primeCount, angleDelta, value, showPredictions)
           ELSE UNCHANGED <<primeCount, angleDelta, predictionCount,
                            showPredictions, primes, predictionGroup,
                            accuracyState, effectCalls>>
        /\ UNCHANGED <<call, ret, canvasState, pointers, previousDistance, drawn, scene, firstResults>>

handleTogglePredictions(checked) ==
    /\ lastEvent' = [handler |-> "handleTogglePredictions", stored |-> TRUE]
    /\ Settle(primeCount, angleDelta, predictionCount, checked)
    /\ UNCHANGED <<call, ret, canvasState, pointers, previousDistance, drawn, scene, firstResults>>

\* onUpdatePrimes (Enter or blur in the prime count field): setPrimeCount
\* with the count the field shows, which is primeCount
onUpdatePrimes ==
    /\ lastEvent' = [handler |-> "onUpdatePrimes", stored |-> TRUE]
    /\ Settle(primeCount, angleDelta, predictionCount, showPredictions)
    /\ UNCHANGED <<call, ret, canvasState, pointers, previousDistance, drawn, scene, firstResults>>

---------------------------------------------------------------------------
(* The texts the change events carry *)

PrimeCountTexts ==
    { <<>>, <<"a", "b", "c">>, <<"0">>, <<"-", "3">>,
      <<"1", "2">>, <<" ", "1", "2", ".", "7">>, <<"1", "0">>,
      <<"1", "e", "5">>, <<"1", "0", "0", "0", "0", "1">> }

AngleDeltaTexts ==
    { <<>>, <<"a", "b", "c">>, <<"0">>, <<"-", "3", "6">>,
      <<"1", "8", "0">>, <<"1", "7", "9", ".", "9">>,
      <<"1", ".", "4", "4", "e", "2">>, <<"7", "2", "0">>,
      <<"I", "n", "f", "i", "n", "i", "t", "y">>, <<"3", "6", ".", "0">>,
      <<"3", "0">> }

PredictionCountTexts ==
    { <<>>, <<"x">>, <<"0">>, <<"-", "1">>, <<"2", "1">>, <<"1", ".", "9">>,
      <<"2", "0">>, <<"3">> }

---------------------------------------------------------------------------
(* PrimeVisualization as a component: its props, the refs its effects      *)
(* write, the animation loops and the font loads in flight.  An effect     *)
(* runs where one of its dependencies changed, in the order the effects    *)
(* are declared: init (303-553), connector (556-584), primes (852-856).    *)

MaxLoops == 3   \* the most animation loops started
MaxLoads == 2   \* the most font loads in flight
MaxFrames == 1  \* the frames counted for a loop after its cleanup
MaxScenePrimes == 3  \* the longest primes prop followed

\* primes.length, angleDelta and width of the props followed
ScenePrimeCounts == {MaxScenePrimes - 1, MaxScenePrimes}
SceneAngles == {Num(36), Num(90)}
SceneWidths == {1, 2}

\* createPrimeSphere: the sphere at (x, y, 0), then its label at
\* (x, y, sphereRadius * 1.6), added to the group in this order
createPrimeSphere(position) ==
    << [type |-> "prime", position |-> [at |-> position, z |-> "0"]],
       [type |-> "label",
        position |-> [at |-> position, z |-> "sphereRadius * 1.6"]] >>

\* primesRef.current.children after createVisualization ran to its end
GroupChildren(primeList, angleDeltaDeg) ==
    [i \in 1..(2 * Len(primeList)) |->
        createPrimeSphere(createVisualization(primeList, angleDeltaDeg)
                              [(i + 1) \div 2])[IF i % 2 = 1 THEN 1 ELSE 2]]
    \o <<>>

\* the refs of a component instance before its first effect, with the props
\* of the render
FreshInstance(count, angle, connector, width) ==
    [mounted |-> TRUE, primes |-> count, angleDelta |-> angle,
     showConnector |-> connector, width |-> width,
     sceneRef |-> FALSE, primesRef |-> Null, lineRef |-> Null,
     fontRef |-> FALSE, initializedRef |-> FALSE, animationFrameRef |-> Null,
     loops |-> <<>>, loads |-> <<>>, last |-> "mount"]

\* cleanupPrimeVisualization
cleanupPrimeVisualization(s) ==
    [s EXCEPT !.primesRef = IF s.sceneRef /\ s.primesRef # Null
                            THEN <<>> ELSE s.primesRef,
              !.lineRef = IF s.sceneRef THEN Null ELSE s.lineRef]

\* createVisualization of the render whose props are `count` primes and
\* `angle`, on the refs as they are now
SceneVisualization(s, count, angle) ==
    IF ~s.sceneRef \/ ~s.fontRef \/ s.primesRef = Null \/ count = 0 THEN s
    ELSE [s EXCEPT !.primesRef = GroupChildren(SieveTake(count), angle)]

\* the body of the init effect: a new scene and an empty group, animate()
\* starts a loop whose frame id is kept nowhere, and a font load starts
\* whose callback holds the primes and the createVisualization of this render
InitEffect(s) ==
    [cleanupPrimeVisualization([s EXCEPT !.sceneRef = TRUE])
        EXCEPT !.primesRef = <<>>,
               !.loops = Append(s.loops, [cleaned |-> FALSE, frames |-> 0]),
               !.loads = Append(s.loads, [primes |-> s.primes,
                                          angleDelta |-> s.angleDelta])]

\* the sequence without its entry i
WithoutEntry(list, i) ==
    [k \in 1..(Len(list) - 1) |-> IF k < i THEN list[k] ELSE list[k + 1]] \o <<>>

\* the cleanup the init effect returned: cancelAnimationFrame where
\* animationFrameRef.current holds an id, then cleanupPrimeVisualization;
\* the loop the effect started is the last one started
InitCleanup(s) ==
    cleanupPrimeVisualization(
        [s EXCEPT !.loops =
            IF s.animationFrameRef # Null
            THEN WithoutEntry(s.loops, Len(s.loops))
            ELSE [s.loops EXCEPT ![Len(s.loops)].cleaned = TRUE]])

\* the connector effect
ConnectorEffect(s) ==
    IF ~s.sceneRef \/ s.primesRef = Null THEN s
    ELSE [s EXCEPT !.lineRef =
             IF s.showConnector /\ Len(s.primesRef) > 0
             THEN [i \in 1..Len(s.primesRef) |-> s.primesRef[i].position] \o <<>>
             ELSE Null]

\* the primes effect
PrimesEffect(s) ==
    IF s.initializedRef THEN SceneVisualization(s, s.primes, s.angleDelta) ELSE s

\* PrimeVisualization mounted with the initial state of ThreeGrid as props,
\* every effect run once
MountedScene(width, loops) ==
    PrimesEffect(ConnectorEffect(InitEffect(
        [FreshInstance(MaxScenePrimes - 1, Num(InitialAngleDelta), FALSE, width)
            EXCEPT !.loops = loops])))

InitialScene == MountedScene(1, <<>>)

\* what no step of the scene touches
OutsideScene ==
    <<primeCount, angleDelta, predictionCount, showPredictions, primes,
      predictionGroup, accuracyState, effectCalls, canvasState, pointers,
      previousDistance, drawn, firstResults, lastEvent, call, ret>>

\* the component is mounted again: a new instance with new refs; the loops
\* of the instances before it are still there
mount(width) ==
    /\ ~scene.mounted
    /\ Len(scene.loops) < MaxLoops
    /\ scene' = MountedScene(width, scene.loops)
    /\ UNCHANGED OutsideScene

\* the component is unmounted: the cleanup of the init effect runs.  The
\* font loads of the instance reach only its own refs from then on.
unmount ==
    /\ scene.mounted
    /\ scene' = [InitCleanup(scene) EXCEPT !.mounted = FALSE, !.loads = <<>>,
                                          !.last = "unmount"]
    /\ UNCHANGED OutsideScene

\* width (or height) changes: the cleanup of the init effect, then its body
resize(width) ==
    /\ scene.mounted /\ width # scene.width
    /\ Len(scene.loops) < MaxLoops /\ Len(scene.loads) < MaxLoads
    /\ scene' = [InitEffect(InitCleanup([scene EXCEPT !.width = width]))
                    EXCEPT !.last = "resize"]
    /\ UNCHANGED OutsideScene

\* the primes prop changes: the connector effect, then the primes effect
setPrimes(count) ==
    /\ scene.mounted /\ count # scene.primes
    /\ scene' = [PrimesEffect(ConnectorEffect([scene EXCEPT !.primes = count]))
                    EXCEPT !.last = "primes"]
    /\ UNCHANGED OutsideScene

\* the angleDelta prop changes: the primes effect
setAngleDelta(angle) ==
    /\ scene.mounted /\ angle # scene.angleDelta
    /\ scene' = [PrimesEffect([scene EXCEPT !.angleDelta = angle])
                    EXCEPT !.last = "angleDelta"]
    /\ UNCHANGED OutsideScene

\* handleToggleConnector: the connector effect
setShowConnector(checked) ==
    /\ scene.mounted /\ checked # scene.showConnector
    /\ scene' = [ConnectorEffect([scene EXCEPT !.showConnector = checked])
                    EXCEPT !.last = "showConnector"]
    /\ UNCHANGED OutsideScene

\* the callback of font load i runs
fontLoaded(i) ==
    /\ scene.mounted /\ i \in 1..Len(scene.loads)
    /\ \E load \in {scene.loads[i]}, s \in {[scene EXCEPT !.fontRef = TRUE,
                                                        !.initializedRef = TRUE,
                                                        !.loads = WithoutEntry(@, i),
                                                        !.last = "fontLoaded"]} :
          scene' = IF s.primesRef # Null /\ s.sceneRef /\ load.primes > 0
                   THEN SceneVisualization(s, load.primes, load.angleDelta)
                   ELSE s
    /\ UNCHANGED OutsideScene

\* a frame of loop i: its refs are set since its init effect ran, so it
\* renders and requests the next frame
animate(i) ==
    /\ i \in 1..Len(scene.loops)
    /\ scene' = [scene EXCEPT !.last = "animate",
                              !.loops[i].frames =
                                  IF scene.loops[i].cleaned /\ @ < MaxFrames
                                  THEN @ + 1 ELSE @]
    /\ UNCHANGED OutsideScene

NextScene ==
    \/ \E width \in SceneWidths : mount(width)
    \/ unmount
    \/ \E width \in SceneWidths : resize(width)
    \/ \E count \in ScenePrimeCounts : setPrimes(count)
    \/ \E angle \in SceneAngles : setAngleDelta(angle)
    \/ \E checked \in BOOLEAN : setShowConnector(checked)
    \/ \E i \in 1..MaxLoads : fontLoaded(i)
    \/ \E i \in 1..MaxLoops : animate(i)

---------------------------------------------------------------------------
(* The component: ThreeGrid mounted, the sieve effect run *)

Init ==
    /\ primeCount = Num(InitialPrimeCount)
    /\ angleDelta = Num(InitialAngleDelta)
    /\ predictionCount = Num(InitialPredictionCount)
    /\ showPredictions = FALSE
    /\ primes = SieveEffect(Num(InitialPrimeCount))
    /\ predictionGroup = Null
    /\ accuracyState = Null
    /\ effectCalls = <<>>
    /\ canvasState = InitialCanvasState
    /\ pointers = <<>>
    /\ previousDistance = -1
    /\ drawn = draw(InitialCanvasState, CanvasPrimes)
    /\ scene = InitialScene
    /\ firstResults = <<>>
    /\ lastEvent = [handler |-> "none", stored |-> FALSE]
    /\ call = NoCall
    /\ ret = Pending

Next ==
    \/ \E text \in PrimeCountTexts : handlePrimeCountChange(text)
    \/ \E text \in AngleDeltaTexts : handleAngleDeltaChange(text)
    \/ \E text \in PredictionCountTexts : handlePredictionCountChange(text)
    \/ \E checked \in BOOLEAN : handleTogglePredictions(checked)
    \/ onUpdatePrimes

Spec == Init /\ [][Next]_vars

---------------------------------------------------------------------------
(* The pipeline functions called directly: `call` keeps the function and   *)
(* its arguments, `ret` what it returned.                                   *)

MaxKnown == 4         \* the longest known prefix passed to generatePrimesUpTo
MaxCount == 9         \* the largest count passed to generatePrimesUpTo
MaxPrimes == 16       \* the longest prime list passed to detectSpiralArms
MaxPredictions == 3   \* the largest number of predictions asked for
MaxArmPoints == 7     \* the longest arm passed to predictArmExtension
MaxExtra == 4         \* extendedPrimes holds up to MaxExtra more primes

\* count arguments: the integers -1..MaxCount, a fraction, NaN and +Infinity
CountInputs ==
    {Num(c) : c \in (-1)..MaxCount} \cup {Rat(5, 2), NaN, PosInfinity}

\* angleDelta arguments, by stepsPerRotation: 10, 3 (2.5 rounds up), 2, 4, 1
\* (0.5 rounds up), 51, 0 (0.36 rounds down); then Infinity, -10, -0 and NaN
AngleInputs ==
    {Num(36), Num(144), Rat(1799, 10), Num(100), Num(720), Num(7), Num(1000),
     Num(0), Num(-36), Num(-1000), NaN, PosInfinity, NegInfinity}

\* numPredictions arguments: 0..MaxPredictions, a fraction and a negative count
PredictionInputs ==
    {Num(k) : k \in 0..MaxPredictions} \cup {Rat(3, 2), Num(-1)}

\* angleDelta arguments of predictArmExtension: stepsPerRotation 10, 3 and 1
ArmAngleInputs == {Num(36), Num(120), Num(360)}

\* the first k points of the arm of residue class 0
ArmOfClassZero(k, stepsPerRotation, angleDeltaDeg) ==
    [j \in 1..k |->
        ArmPoint(SieveTake((k - 1) * stepsPerRotation + 1),
                 (j - 1) * stepsPerRotation, angleDeltaDeg)] \o <<>>

\* the calls made: one per behaviour, its arguments drawn at the start
GenerateCalls ==
    {[fn |-> "generatePrimesUpTo", count |-> count,
      startingPrimes |-> SieveTake(m)] :
        count \in CountInputs, m \in 0..MaxKnown}

DetectCalls ==
    {[fn |-> "detectSpiralArms", primes |-> SieveTake(n), angleDelta |-> angle,
      numPredictions |-> numPredictions] :
        n \in 0..MaxPrimes, angle \in AngleInputs,
        numPredictions \in PredictionInputs}

PredictCalls ==
    {[fn |-> "predictArmExtension",
      points |-> ArmOfClassZero(k, StepsPerRotation(angle).n, angle),
      stepsPerRotation |-> StepsPerRotation(angle), angleDelta |-> angle,
      numPredictions |-> numPredictions] :
        k \in 0..MaxArmPoints, angle \in ArmAngleInputs,
        numPredictions \in PredictionInputs}

\* the number of primes the prediction effect has generated beyond the
\* known ones: predictionCount * stepsPerRotation (0 where that is no count)
EffectExtra(angleDeltaDeg, numPredictions) ==
    LET extra == JsMul(numPredictions, StepsPerRotation(angleDeltaDeg))
    IN  IF IsInteger(extra) /\ extra.n >= 0 THEN extra.n ELSE 0

\* extendedPrimes holds no further prime, MaxExtra further primes, or the
\* primes the prediction effect generates
AccuracyCalls ==
    UNION {{[fn |-> "calculateAccuracyWithExtended",
             actualPrimes |-> SieveTake(n),
             extendedPrimes |-> SieveTake(n + extra), angleDelta |-> angle,
             numPredictions |-> numPredictions] :
               extra \in {0, MaxExtra, EffectExtra(angle, numPredictions)}} :
           n \in 0..MaxPrimes, angle \in AngleInputs,
           numPredictions \in PredictionInputs}

\* angleDelta arguments of the part_002 functions: the angles that put every
\* position on the x axis, where every distance is a rational number
AxisAngleInputs == {Num(180), Num(360)}

\* calculateAccuracy is called with the arms detected in the primes it is
\* given (part_002 lines 522-525)
AngularAccuracyCalls ==
    {[fn |-> "calculateAccuracy",
      arms |-> detectSpiralArmsAngular(SieveTake(n), angle),
      allPrimes |-> SieveTake(n), angleDelta |-> angle] :
        n \in 0..MaxPrimes, angle \in AxisAngleInputs}

\* angleDelta arguments of the angular-tolerance detectSpiralArms: neighbours
\* 1 and 2 degrees apart (5 and 2 of them within 0.1 rad of a seed), and 3
\* and 2 rays
ToleranceAngleInputs == {Num(1), Num(2), Num(120), Num(180)}

AngularDetectCalls ==
    {[fn |-> "detectSpiralArmsAngular", primes |-> SieveTake(n),
      angleDelta |-> angle] : n \in 0..MaxPrimes, angle \in ToleranceAngleInputs}

\* createVisualization runs with the primes and the angleDelta of the props
VisualizationCalls ==
    {[fn |-> "createVisualization", primes |-> SieveTake(n),
      angleDelta |-> angle] : n \in 0..MaxPrimes, angle \in AngleInputs}

callGeneratePrimesUpTo ==
    /\ call.fn = "generatePrimesUpTo" /\ ret.pending
    /\ ret' = Returned(generatePrimesUpTo(call.count, call.startingPrimes))
    /\ UNCHANGED <<primeCount, angleDelta, predictionCount, showPredictions,
                   primes, predictionGroup, accuracyState, effectCalls,
                   canvasState, pointers, previousDistance, drawn, scene, firstResults, lastEvent, call>>

callDetectSpiralArms ==
    /\ call.fn = "detectSpiralArms" /\ ret.pending
    /\ ret' = Returned(detectSpiralArms(call.primes, call.angleDelta,
                                        call.numPredictions))
    /\ UNCHANGED <<primeCount, angleDelta, predictionCount, showPredictions,
                   primes, predictionGroup, accuracyState, effectCalls,
                   canvasState, pointers, previousDistance, drawn, scene, firstResults, lastEvent, call>>

callPredictArmExtension ==
    /\ call.fn = "predictArmExtension" /\ ret.pending
    /\ ret' = Returned(predictArmExtension(call.points, call.stepsPerRotation,
                                           call.angleDelta,
                                           call.numPredictions))
    /\ UNCHANGED <<primeCount, angleDelta, predictionCount, showPredictions,
                   primes, predictionGroup, accuracyState, effectCalls,
                   canvasState, pointers, previousDistance, drawn, scene, firstResults, lastEvent, call>>

callCalculateAccuracyWithExtended ==
    /\ call.fn = "calculateAccuracyWithExtended" /\ ret.pending
    /\ ret' = Returned(calculateAccuracyWithExtended(call.actualPrimes,
                                                     call.extendedPrimes,
                                                     call.angleDelta,
                                                     call.numPredictions))
    /\ UNCHANGED <<primeCount, angleDelta, predictionCount, showPredictions,
                   primes, predictionGroup, accuracyState, effectCalls,
                   canvasState, pointers, previousDistance, drawn, scene, firstResults, lastEvent, call>>

callCalculateAccuracy ==
    /\ call.fn = "calculateAccuracy" /\ ret.pending
    /\ ret' = Returned(calculateAccuracy(call.arms, call.allPrimes,
                                         call.angleDelta))
    /\ UNCHANGED <<primeCount, angleDelta, predictionCount, showPredictions,
                   primes, predictionGroup, accuracyState, effectCalls,
                   canvasState, pointers, previousDistance, drawn, scene, firstResults, lastEvent, call>>

callDetectSpiralArmsAngular ==
    /\ call.fn = "detectSpiralArmsAngular" /\ ret.pending
    /\ ret' = Returned(detectSpiralArmsAngular(call.primes, call.angleDelta))
    /\ UNCHANGED <<primeCount, angleDelta, predictionCount, showPredictions,
                   primes, predictionGroup, accuracyState, effectCalls,
                   canvasState, pointers, previousDistance, drawn, scene, firstResults, lastEvent, call>>

\* ret is the positions of the spheres created, in the order of creation
callCreateVisualization ==
    /\ call.fn = "createVisualization" /\ ret.pending
    /\ ret' = Returned(createVisualization(call.primes, call.angleDelta))
    /\ UNCHANGED <<primeCount, angleDelta, predictionCount, showPredictions,
                   primes, predictionGroup, accuracyState, effectCalls,
                   canvasState, pointers, previousDistance, drawn, scene, firstResults, lastEvent, call>>

InitCalls ==
    /\ primeCount = Num(InitialPrimeCount)
    /\ angleDelta = Num(InitialAngleDelta)
    /\ predictionCount = Num(InitialPredictionCount)
    /\ showPredictions = FALSE
    /\ primes = SieveEffect(Num(InitialPrimeCount))
    /\ predictionGroup = Null
    /\ accuracyState = Null
    /\ effectCalls = <<>>
    /\ canvasState = InitialCanvasState
    /\ pointers = <<>>
    /\ previousDistance = -1
    /\ drawn = draw(InitialCanvasState, CanvasPrimes)
    /\ scene = InitialScene
    /\ firstResults = <<>>
    /\ lastEvent = [handler |-> "none", stored |-> FALSE]
    /\ call \in GenerateCalls \cup DetectCalls \cup PredictCalls
                \cup AccuracyCalls \cup AngularAccuracyCalls
                \cup VisualizationCalls \cup AngularDetectCalls
    /\ ret = Pending

NextCalls ==
    \/ callGeneratePrimesUpTo
    \/ callDetectSpiralArms
    \/ callPredictArmExtension
    \/ callCalculateAccuracyWithExtended
    \/ callCalculateAccuracy
    \/ callCreateVisualization
    \/ callDetectSpiralArmsAngular

---------------------------------------------------------------------------
(* The 2D control panel: App mounted, then input and change events *)

PanelTexts ==
    { <<>>, <<"a", "b", "c">>, <<"0">>, <<"-", "5">>, <<"1">>, <<"2">>,
      <<"5">>, <<"7">>, <<"1", "0">>, <<"1", "2", ".", "5">>, <<"2", "0">>,
      <<"3", "6">>, <<"9", "0">>, <<"1", "e", "2">>, <<"3", "6", "0">>,
      <<"4", "0", "0">> }

NextPanel ==
    \E name \in {"angleDelta", "traceRoute"}, text \in PanelTexts :
        callAction(name, text)

SpecPanel == Init /\ [][NextPanel]_vars

SpecScene == Init /\ [][NextScene]_vars

---------------------------------------------------------------------------
(* The 2D canvas: App mounted, then pointer, wheel, resize, Recenter and    *)
(* control panel events                                                     *)

MaxCanvasScaleSteps == 1   \* the scale steps followed next to the drags

PointerTypes ==
    {"pointerdown", "pointermove", "pointerup", "pointercancel", "pointerout"}
PointerIds == {1, 2}
\* clientX and clientY of the events
PointerPlaces == {<<0, 0>>, <<1, 1>>}
\* deltaY of the wheel events
WheelInputs == {-100, 0, 100}
CanvasTexts == {<<"9", "0">>}

\* clientX of the two pointers of a pinch
PinchPlaces == {0, 1, 2}

FewScaleSteps ==
    canvasState.scale.down + canvasState.scale.up <= MaxCanvasScaleSteps

NextCanvas ==
    \/ \E type \in PointerTypes, pointerId \in PointerIds, place \in PointerPlaces :
          pointerEvent(type, pointerId, place[1], place[2]) /\ FewScaleSteps'
    \/ \E deltaY \in WheelInputs : updateScale(deltaY) /\ FewScaleSteps'
    \/ resetPosition
    \/ \E name \in {"angleDelta", "traceRoute"}, text \in CanvasTexts :
          callAction(name, text)

SpecCanvas == Init /\ [][NextCanvas]_vars

\* Wheel and pinch events only: one or two pointers on a horizontal line,
\* moved while both are down, pointer 1 resting at the left end
NextScale ==
    \/ \E deltaY \in WheelInputs : updateScale(deltaY)
    \/ \E type \in PointerTypes, pointerId \in PointerIds, clientX \in PinchPlaces :
          /\ type = "pointermove" => Len(pointers) = 2
          /\ type = "pointerdown" => FindIndex(pointers, pointerId) = 0
          /\ pointerId = 1 => clientX = 0
          /\ pointerEvent(type, pointerId, clientX, 0)

SpecScale == Init /\ [][NextScale]_vars

SpecCalls == InitCalls /\ [][NextCalls]_vars

---------------------------------------------------------------------------
(* Repeated recomputations on one primes array: the body of the prediction *)
(* effect (lines 618-632) invoked again and again by a caller that keeps   *)
(* the array it passes and never changes it itself                         *)

MaxRepeatPrimes == 12  \* the length of the array the caller holds

RepeatAngleInputs == {Num(36), Num(144), Num(30)}
RepeatPredictionInputs == {Num(1), Num(3)}

\* One recomputation.  The array is kept as the calls leave it; the result
\* is remembered when the input is invoked for the first time.
invokePipeline(angleDeltaDeg, numPredictions) ==
    \E e \in {EffectWithSteps(StepsPerRotation(angleDeltaDeg), primes,
                              angleDeltaDeg, numPredictions)} :
        \E key \in {[angleDelta |-> angleDeltaDeg,
                     numPredictions |-> numPredictions]} :
            /\ primes' = e.primes
            /\ call' = [fn |-> "pipeline", input |-> key,
                        repeated |-> key \in DOMAIN firstResults]
            /\ ret' = Returned([extendedPrimes |-> e.predictionGroup.extendedPrimes,
                                arms |-> e.predictionGroup.arms,
                                report |-> e.accuracyState])
            /\ firstResults' =
                   IF key \in DOMAIN firstResults THEN firstResults
                   ELSE firstResults @@ (key :> ret'.value)
            /\ UNCHANGED <<primeCount, angleDelta, predictionCount,
                           showPredictions, predictionGroup, accuracyState,
                           effectCalls, canvasState, pointers, previousDistance, drawn, scene, lastEvent>>

InitRepeat ==
    /\ primeCount = Num(MaxRepeatPrimes)
    /\ angleDelta = Num(InitialAngleDelta)
    /\ predictionCount = Num(InitialPredictionCount)
    /\ showPredictions = FALSE
    /\ primes = SieveEffect(Num(MaxRepeatPrimes))
    /\ predictionGroup = Null
    /\ accuracyState = Null
    /\ effectCalls = <<>>
    /\ canvasState = InitialCanvasState
    /\ pointers = <<>>
    /\ previousDistance = -1
    /\ drawn = draw(InitialCanvasState, CanvasPrimes)
    /\ scene = InitialScene
    /\ firstResults = <<>>
    /\ lastEvent = [handler |-> "none", stored |-> FALSE]
    /\ call = NoCall
    /\ ret = Pending

NextRepeat ==
    \E angle \in RepeatAngleInputs, numPredictions \in RepeatPredictionInputs :
        invokePipeline(angle, numPredictions)

SpecRepeat == InitRepeat /\ [][NextRepeat]_vars

---------------------------------------------------------------------------
(* Properties of detectSpiralArms *)

\* a detectSpiralArms call that returned
DetectReturned == call.fn = "detectSpiralArms" /\ ~ret.pending

\* the indices of the points of an arm
ArmIndices(arm) == {arm.points[j].index : j \in 1..Len(arm.points)}

\* i mod stepsPerRotation for stepsPerRotation >= 1 (i itself when it is
\* +Infinity)
Residue(i, stepsPerRotation) ==
    IF IsFinite(stepsPerRotation) THEN Num(i % stepsPerRotation.n) ELSE Num(i)

\* the indices below n in the residue class of i
ResidueClass(i, n, stepsPerRotation) ==
    {j \in 0..(n - 1) : Residue(j, stepsPerRotation) = Residue(i, stepsPerRotation)}

\* C1: for a prime list of length n >= 3 and stepsPerRotation =
\* round(360 / angleDelta) >= 1, every index 0..n-1 is in at most one of the
\* arms detectSpiralArms returns, index i is in the arm with armIndex
\* i mod stepsPerRotation exactly when that residue class has at least 2
\* indices below n, and no arm holds an index outside its residue class.
C1_ResidueClassPartition ==
    (/\ DetectReturned
     /\ Len(call.primes) >= 3
     /\ JsGe(MathRound(JsDiv(Num(360), call.angleDelta)), Num(1)))
    => LET arms == ret.value
           n == Len(call.primes)
           S == MathRound(JsDiv(Num(360), call.angleDelta))
       IN  /\ \A i \in 0..(n - 1) :
                 Cardinality({a \in 1..Len(arms) : i \in ArmIndices(arms[a])}) <= 1
           /\ \A i \in 0..(n - 1) :
                 (\E a \in 1..Len(arms) :
                     /\ arms[a].armIndex = Residue(i, S)
                     /\ i \in ArmIndices(arms[a]))
                 <=> Cardinality(ResidueClass(i, n, S)) >= 2
           /\ \A a \in 1..Len(arms) : \A i \in ArmIndices(arms[a]) :
                 Residue(i, S) = arms[a].armIndex

\* 13 primes at 36 degrees: the classes 0, 1, 2 have two indices and form
\* arms, the classes 3..9 have one index and form none
C1_Witness ==
    /\ DetectReturned
    /\ Len(call.primes) = 13 /\ call.angleDelta = Num(36)
    /\ Len(ret.value) = 3
    /\ \A a \in 1..3 : Cardinality(ArmIndices(ret.value[a])) = 2

\* C2: for the 15 primes 2..47 and angleDelta = 36, stepsPerRotation is 10
\* and detectSpiralArms returns an arm with armIndex 0 whose points are
\* exactly the indices 0 and 10, the primes 2 and 31.
C2_FifteenPrimesArmZero ==
    (/\ DetectReturned
     /\ call.primes = <<2, 3, 5, 7, 11, 13, 17, 19, 23, 29, 31, 37, 41, 43, 47>>
     /\ call.angleDelta = Num(36))
    => /\ StepsPerRotation(call.angleDelta) = Num(10)
       /\ \E a \in 1..Len(ret.value) :
             /\ ret.value[a].armIndex = Num(0)
             /\ [j \in 1..Len(ret.value[a].points) |->
                    <<ret.value[a].points[j].index, ret.value[a].points[j].prime>>]
                = <<(<<0, 2>>), (<<10, 31>>)>>

C2_Witness ==
    /\ DetectReturned
    /\ call.primes = <<2, 3, 5, 7, 11, 13, 17, 19, 23, 29, 31, 37, 41, 43, 47>>
    /\ call.angleDelta = Num(36)
    /\ call.numPredictions = Num(3)
    /\ Len(ret.value) = 5

---------------------------------------------------------------------------
(* Properties of generatePrimesUpTo *)

\* a generatePrimesUpTo call that returned
GenerateReturned == call.fn = "generatePrimesUpTo" /\ ~ret.pending

\* the count argument is a length L with from <= L
IsLengthFrom(count, from) == IsInteger(count) /\ count.n >= from

StrictlyAscending(list) ==
    \A i \in 1..(Len(list) - 1) : list[i] < list[i + 1]

HasNoDivisor(p) == p > 1 /\ \A q \in 2..(p - 1) : p % q # 0

\* list is the prime numbers from 2 on, in order, none skipped
IsFirstPrimes(list) ==
    /\ StrictlyAscending(list)
    /\ \A i \in 1..Len(list) : HasNoDivisor(list[i])
    /\ list # <<>> =>
           \A p \in 2..list[Len(list)] :
               HasNoDivisor(p) => \E i \in 1..Len(list) : list[i] = p

\* C3: for a known ascending prime prefix and a length L >= len(known),
\* generatePrimesUpTo(L, known) returns a strictly ascending sequence of
\* length exactly L whose first len(known) entries are known, and leaves
\* the caller's array as it was.
C3_ExtensionKeepsPrefix ==
    (/\ GenerateReturned
     /\ IsLengthFrom(call.count, Len(call.startingPrimes)))
    => /\ ~ret.threw /\ ~ret.value.diverges
       /\ Len(ret.value.returned) = call.count.n
       /\ StrictlyAscending(ret.value.returned)
       /\ SubSeq(ret.value.returned, 1, Len(call.startingPrimes))
          = call.startingPrimes
       /\ ret.value.startingPrimes = call.startingPrimes

\* four known primes extended to nine
C3_Witness ==
    /\ GenerateReturned
    /\ call.startingPrimes = <<2, 3, 5, 7>> /\ call.count = Num(9)
    /\ Len(ret.value.returned) = 9
    /\ ret.value.returned[9] > ret.value.returned[4]

\* C4: when known is the first m primes, generatePrimesUpTo appends exactly
\* the next primes in order, none skipped and no composite included;
\* generatePrimesUpTo(8, [2,3,5]) is [2,3,5,7,11,13,17,19].
C4_AppendsNextPrimes ==
    (/\ GenerateReturned
     /\ IsFirstPrimes(call.startingPrimes)
     /\ IsLengthFrom(call.count, Len(call.startingPrimes)))
    => /\ IsFirstPrimes(ret.value.returned)
       /\ Len(ret.value.returned) = call.count.n
       /\ (call.count = Num(8) /\ call.startingPrimes = <<2, 3, 5>>)
          => ret.value.returned = <<2, 3, 5, 7, 11, 13, 17, 19>>

C4_Witness ==
    /\ GenerateReturned
    /\ call.count = Num(8) /\ call.startingPrimes = <<2, 3, 5>>
    /\ ret.value.returned = <<2, 3, 5, 7, 11, 13, 17, 19>>

\* C5 as claimed: asked for a length L smaller than the number of known
\* primes, generatePrimesUpTo fails (InvalidExtensionLength) and returns no
\* sequence.
C5_ShortLengthFails ==
    (/\ GenerateReturned
     /\ IsLengthFrom(call.count, 0)
     /\ call.count.n < Len(call.startingPrimes))
    => ret.threw

\* C5 as amended: asked for a length 0 <= L < len(known), generatePrimesUpTo
\* raises no error and returns the first L entries of known; the caller's
\* array is left as it was.
C5_ShortLengthTruncates ==
    (/\ GenerateReturned
     /\ IsLengthFrom(call.count, 0)
     /\ call.count.n < Len(call.startingPrimes))
    => /\ ~ret.threw /\ ~ret.value.diverges
       /\ ret.value.returned
          = [i \in 1..call.count.n |-> call.startingPrimes[i]]
       /\ ret.value.startingPrimes = call.startingPrimes

\* three known primes, two asked for
C5_Witness ==
    /\ GenerateReturned
    /\ call.startingPrimes = <<2, 3, 5>> /\ call.count = Num(2)
    /\ ret.value.returned = <<2, 3>>

---------------------------------------------------------------------------
(* angleDelta <= 0 or not finite *)

AccuracyReturned == call.fn = "calculateAccuracyWithExtended" /\ ~ret.pending

\* angleDelta is <= 0 or is not finite
OutOfDomain(angleDeltaDeg) ==
    ~IsFinite(angleDeltaDeg) \/ angleDeltaDeg.n <= 0

\* the number of predictions a loop `step = 1; step <= k; step++` makes
LoopSteps(k) == IF JsGe(k, Num(1)) THEN k.n \div k.d ELSE 0

\* the residue classes modulo m >= 1 that have at least 2 indices below n
ClassesWithTwo(n, m) == {r \in 0..(m - 1) : r + m <= n - 1}

---------------------------------------------------------------------------
(* Properties of predictArmExtension *)

PredictReturned == call.fn = "predictArmExtension" /\ ~ret.pending

\* C9: predictArmExtension returns exactly numPredictions predictions for
\* an arm of at least 2 points and none for an arm of fewer than 2 points
\* (numPredictions a count: an integer >= 0); so every arm detectSpiralArms
\* returns carries exactly numPredictions predictions.
C9_PredictionCount ==
    /\ (PredictReturned /\ IsLengthFrom(call.numPredictions, 0))
       => Len(ret.value) = IF Len(call.points) >= 2
                           THEN call.numPredictions.n ELSE 0
    /\ (DetectReturned /\ IsLengthFrom(call.numPredictions, 0))
       => \A a \in 1..Len(ret.value) :
              Len(ret.value[a].predictions) = call.numPredictions.n

\* an arm of two points asked for three predictions
C9_Witness ==
    /\ PredictReturned
    /\ Len(call.points) = 2 /\ call.numPredictions = Num(3)
    /\ call.stepsPerRotation = Num(3)
    /\ Len(ret.value) = 3

\* C10: for an arm of exactly 2 points gapAcceleration is 0 and the
\* prediction of step s has the prime lastPrime + s * avgGap, avgGap the
\* gap between the two points; the first one is lastPrime + avgGap.
C10_TwoPointArmIsLinear ==
    (PredictReturned /\ Len(call.points) = 2)
    => LET lastPrime == call.points[2].prime
           avgGap == call.points[2].prime - call.points[1].prime
       IN  /\ GapAcceleration(PrimeGaps(call.points)) = Num(0)
           /\ \A s \in 1..Len(ret.value) :
                 /\ ret.value[s].predictedPrime = Num(lastPrime + s * avgGap)
                 /\ ret.value[s].radius
                    = Rat(lastPrime + s * avgGap, 100)

\* the primes 2 and 31 (indices 0 and 10): the predictions 60, 89 and 118
C10_Witness ==
    /\ PredictReturned
    /\ Len(call.points) = 2
    /\ call.points[1].prime = 2 /\ call.points[2].prime = 31
    /\ call.numPredictions = Num(3)
    /\ [s \in 1..3 |-> ret.value[s].predictedPrime] = <<Num(60), Num(89), Num(118)>>

---------------------------------------------------------------------------
(* Properties of the ThreeGrid state *)

\* texts that carry no valid value: empty, not a number, zero, negative,
\* out of range
InvalidPrimeCountTexts ==
    { <<>>, <<"a", "b", "c">>, <<"0">>, <<"-", "3">>,
      <<"1", "0", "0", "0", "0", "1">> }

InvalidAngleDeltaTexts ==
    { <<>>, <<"a", "b", "c">>, <<"0">>, <<"-", "3", "6">>, <<"1", "8", "0">>,
      <<"7", "2", "0">>, <<"I", "n", "f", "i", "n", "i", "t", "y">> }

InvalidPredictionCountTexts ==
    { <<>>, <<"x">>, <<"0">>, <<"-", "1">>, <<"2", "1">> }

\* 0 < angleDelta < 180, 1 <= predictionCount <= 20, 0 < primeCount <= 100000
StateInRange ==
    /\ JsGt(angleDelta, Num(0)) /\ JsLt(angleDelta, Num(180))
    /\ JsGe(predictionCount, Num(1)) /\ JsLe(predictionCount, Num(20))
    /\ JsGt(primeCount, Num(0)) /\ JsLe(primeCount, Num(100000))

\* an event that carries an invalid text leaves its state as it was
InvalidEventKeepsState ==
    /\ \A text \in InvalidPrimeCountTexts :
           handlePrimeCountChange(text) => primeCount' = primeCount
    /\ \A text \in InvalidAngleDeltaTexts :
           handleAngleDeltaChange(text) => angleDelta' = angleDelta
    /\ \A text \in InvalidPredictionCountTexts :
           handlePredictionCountChange(text)
           => predictionCount' = predictionCount

\* C7: after any sequence of handlePrimeCountChange, handleAngleDeltaChange
\* and handlePredictionCountChange events with arbitrary texts the state
\* satisfies 0 < angleDelta < 180, 1 <= predictionCount <= 20 and
\* 0 < primeCount <= 100000, and an event carrying an invalid value leaves
\* the corresponding state unchanged.
C7_StateStaysValid ==
    /\ []StateInRange
    /\ [][InvalidEventKeepsState]_vars

\* every state was changed, then an invalid angle text was refused
C7_Witness ==
    /\ lastEvent = [handler |-> "handleAngleDeltaChange", stored |-> FALSE]
    /\ angleDelta = Num(144)
    /\ predictionCount = Num(20)
    /\ primeCount = Num(12)

\* C8: in every recomputation stepsPerRotation = round(360/angleDelta) is an
\* integer >= 1 for every angleDelta that can reach detectSpiralArms, and
\* the arm index of every point is its index mod stepsPerRotation, a
\* residue in 0..stepsPerRotation-1.
C8_StepsPerRotationAtLeastOne ==
    LET S == MathRound(JsDiv(Num(360), angleDelta))
    IN  /\ IsInteger(S) /\ S.n >= 1
        /\ ~predictionGroup.isNull
           => /\ predictionGroup.stepsPerRotation = S
              /\ \A a \in 1..Len(predictionGroup.arms) :
                    LET arm == predictionGroup.arms[a]
                    IN  /\ IsInteger(arm.armIndex)
                        /\ arm.armIndex.n \in 0..(S.n - 1)
                        /\ \A i \in ArmIndices(arm) : i % S.n = arm.armIndex.n

\* the arms of the 300 primes at 179.9 degrees: the classes 0 and 1 modulo 2
C8_Witness ==
    /\ ~predictionGroup.isNull
    /\ angleDelta = Rat(1799, 10)
    /\ Len(primes) = 300
    /\ predictionGroup.stepsPerRotation = Num(2)
    /\ Len(predictionGroup.arms) = 2

---------------------------------------------------------------------------
(* The accuracy report *)

\* C11: calculateAccuracyWithExtended called with fewer than 10 primes
\* returns the report of four zeros, whatever angleDelta, numPredictions
\* and extendedPrimes are.
C11_FewPrimesZeroReport ==
    (AccuracyReturned /\ Len(call.actualPrimes) < 10)
    => ret.value = [totalPredictions |-> 0, correctPredictions |-> 0,
                    averageDistance |-> Num(0), accuracy |-> Num(0)]

\* 9 primes at 144 degrees with 4 more primes known: the three arms of the
\* classes modulo 3 have predictions with ground truth, yet the report is 0
C11_Witness ==
    /\ AccuracyReturned
    /\ Len(call.actualPrimes) = 9 /\ Len(call.extendedPrimes) = 13
    /\ call.angleDelta = Num(144) /\ call.numPredictions = Num(3)
    /\ Len(detectSpiralArms(call.actualPrimes, call.angleDelta,
                            call.numPredictions)) = 3
    /\ ret.value.totalPredictions = 0

---------------------------------------------------------------------------
(* The recomputation: the prediction effect run with showPredictions on *)

AllZeroReport ==
    [totalPredictions |-> 0, correctPredictions |-> 0,
     averageDistance |-> Num(0), accuracy |-> Num(0)]

EffectInvoked(fn) == \E c \in 1..Len(effectCalls) : effectCalls[c] = fn

\* C12 as stated: in a recomputation where the prime count is below the
\* minimum of 10 or where no arm qualifies, the all-zero report is returned
\* and generatePrimesUpTo is not invoked.
C12_NoExtensionWithoutArms ==
    (/\ showPredictions
     /\ \/ Len(primes) < 10
        \/ detectSpiralArms(primes, angleDelta, predictionCount) = <<>>)
    => /\ accuracyState = AllZeroReport
       /\ ~EffectInvoked("generatePrimesUpTo")

\* C12 as the code has it: a recomputation with at most 10 primes invokes
\* no pipeline function and leaves no report (the accuracy is null); a
\* recomputation with more than 10 primes invokes generatePrimesUpTo once,
\* before detectSpiralArms and calculateAccuracyWithExtended, whether or
\* not an arm qualifies, and returns the all-zero report when none does.
C12_ExtensionBeforeDetection ==
    showPredictions
    => /\ Len(primes) <= 10
          => effectCalls = <<>> /\ accuracyState = Null
       /\ Len(primes) > 10
          => /\ effectCalls = <<"generatePrimesUpTo", "detectSpiralArms",
                                "calculateAccuracyWithExtended">>
             /\ ~predictionGroup.isNull
             /\ Len(predictionGroup.extendedPrimes)
                = Len(primes)
                  + predictionCount.n * StepsPerRotation(angleDelta).n
             /\ predictionGroup.arms = <<>>
                => accuracyState = AllZeroReport

\* 12 primes at 30 degrees: 12 residue classes of one point each, no arm,
\* and 3 * 12 primes generated beyond the 12
C12_Witness ==
    /\ showPredictions
    /\ Len(primes) = 12 /\ angleDelta = Num(30) /\ predictionCount = Num(3)
    /\ predictionGroup.arms = <<>>
    /\ Len(predictionGroup.extendedPrimes) = 48
    /\ effectCalls[1] = "generatePrimesUpTo"
    /\ accuracyState = AllZeroReport

AngularAccuracyReturned == call.fn = "calculateAccuracy" /\ ~ret.pending

\* the report is in range and is the quotient of the totals the scorer
\* accumulated
ReportAgrees(report, totals) ==
    /\ report.totalPredictions = totals.totalPredictions
    /\ report.correctPredictions = totals.correctPredictions
    /\ 0 <= report.correctPredictions
    /\ report.correctPredictions <= report.totalPredictions
    /\ JsGe(report.averageDistance, Num(0))
    /\ JsGe(report.accuracy, Num(0)) /\ JsLe(report.accuracy, Num(100))
    /\ report.totalPredictions > 0
       => /\ report.accuracy
             = Rat(100 * report.correctPredictions, report.totalPredictions)
          /\ report.averageDistance
             = JsDiv(totals.totalDistance, Num(report.totalPredictions))
    /\ report.totalPredictions = 0
       => report.accuracy = Num(0) /\ report.averageDistance = Num(0)

---------------------------------------------------------------------------
(* The predictions calculateAccuracyWithExtended scores *)

ScoredArms ==
    detectSpiralArms(call.actualPrimes, call.angleDelta, call.numPredictions)

\* the index the scorer computes for prediction j (counted from 1) of arm a
ScoredIndex(a, j) ==
    JsAdd(Num(ScoredArms[a].points[Len(ScoredArms[a].points)].index),
          JsMul(Num(j), MathRound(JsDiv(Num(360), call.angleDelta))))

\* the predictions that have a ground truth: predictedIndex <
\* extendedPrimes.length
ScoredPredictions ==
    {aj \in UNION {{<<a, j>> : j \in 1..Len(ScoredArms[a].predictions)} :
                   a \in 1..Len(ScoredArms)} :
        JsLt(ScoredIndex(aj[1], aj[2]), Num(Len(call.extendedPrimes)))}

ActualRadiusOf(aj) ==
    JsMul(Rat(1, 100),
          ElementAt(call.extendedPrimes, ScoredIndex(aj[1], aj[2])))

PredictedRadiusOf(aj) == ScoredArms[aj[1]].predictions[aj[2]].radius

\* both points lie on the ray of predictedIndex * angleDelta
DistanceOf(aj) ==
    JsAbs(JsAdd(PredictedRadiusOf(aj), JsMul(Num(-1), ActualRadiusOf(aj))))

\* max(0.3, 0.05 * mean of the predicted and the actual radius)
ThresholdOf(aj) ==
    MathMax(Rat(3, 10),
            JsMul(Rat(1, 20),
                  JsDiv(JsAdd(JsAbs(PredictedRadiusOf(aj)), ActualRadiusOf(aj)),
                        Num(2))))

\* C14: a scored prediction is counted as correct if and only if its
\* distance to the ground truth is strictly less than max(0.3, 0.05 * mean
\* of the predicted and the actual radius); a prediction at exactly that
\* distance is counted in totalPredictions and not in correctPredictions.
C14_CorrectIffStrictlyCloser ==
    (/\ AccuracyReturned /\ ~OutOfDomain(call.angleDelta)
     /\ Len(call.actualPrimes) >= 10)
    => /\ ret.value.totalPredictions = Cardinality(ScoredPredictions)
       /\ ret.value.correctPredictions
          = Cardinality({aj \in ScoredPredictions :
                            JsLt(DistanceOf(aj), ThresholdOf(aj))})

\* 15 primes at 36 degrees: the arm of the indices 4 and 14 (primes 11 and
\* 47) predicts 119 at index 34, where the prime is 149: the distance 0.3 is
\* the threshold, and the prediction is counted but not as correct; one
\* more prediction is farther than the threshold, the other 8 are correct
C14_Witness ==
    /\ AccuracyReturned
    /\ Len(call.actualPrimes) = 15 /\ call.angleDelta = Num(36)
    /\ call.numPredictions = Num(2) /\ Len(call.extendedPrimes) = 35
    /\ <<5, 2>> \in ScoredPredictions
    /\ DistanceOf(<<5, 2>>) = Rat(3, 10)
    /\ ThresholdOf(<<5, 2>>) = Rat(3, 10)
    /\ ret.value.totalPredictions = 10
    /\ JsLt(ThresholdOf(<<1, 2>>), DistanceOf(<<1, 2>>))
    /\ ret.value.correctPredictions = 8

---------------------------------------------------------------------------
(* Determinism *)

\* C15: an invocation of the pipeline (generatePrimesUpTo, detectSpiralArms
\* with predictArmExtension, calculateAccuracyWithExtended) returns the
\* extended primes, the arms with their predictions and the report that the
\* first invocation with the same primes array, angleDelta and
\* predictionCount returned, whatever invocations happened in between.
C15_SameInputSameResult ==
    (call.fn = "pipeline" /\ ~ret.pending)
    => /\ call.input \in DOMAIN firstResults
       /\ ret.value = firstResults[call.input]
       /\ primes = SieveEffect(Num(MaxRepeatPrimes))

\* every input has been invoked and the last invocation, 144 degrees with 3
\* predictions, repeats an earlier one: 3 arms of 4 points
C15_Witness ==
    /\ call.fn = "pipeline" /\ call.repeated
    /\ call.input = [angleDelta |-> Num(144), numPredictions |-> Num(3)]
    /\ Cardinality(DOMAIN firstResults) = 6
    /\ Len(ret.value.arms) = 3
    /\ Len(ret.value.arms[1].predictions) = 3
    /\ ret.value.report.totalPredictions = 9

---------------------------------------------------------------------------
(* Positions *)

VisualizationReturned == call.fn = "createVisualization" /\ ~ret.pending

\* radius = 0.01 * prime and angle = index * angleDelta (degrees, the unit
\* the model keeps angles in), not reduced modulo 360
OnSpiral(point, angleDeltaDeg) ==
    /\ point.prime = call.primes[point.index + 1]
    /\ point.radius = Rat(point.prime, 100)
    /\ point.angle = Rat(point.index * angleDeltaDeg.n, angleDeltaDeg.d)
    /\ point.index = 0 => point.angle = Num(0)

\* of two points the one with the larger index has the larger angle
AnglesAscend(points) ==
    \A p, q \in {points[j] : j \in 1..Len(points)} :
        p.index < q.index => JsLt(p.angle, q.angle)

---------------------------------------------------------------------------
(* Order of the arms and of their points *)

\* C17: in the result of detectSpiralArms (angleDelta > 0 and finite) the
\* arms are in strictly ascending armIndex order, and within each arm the
\* points are in strictly ascending index order, which is also strictly
\* ascending radius order (the primes passed are ascending).
C17_ArmsAndPointsAscend ==
    (DetectReturned /\ ~OutOfDomain(call.angleDelta))
    => /\ \A a \in 1..(Len(ret.value) - 1) :
              JsLt(ret.value[a].armIndex, ret.value[a + 1].armIndex)
       /\ \A a \in 1..Len(ret.value) :
              \A j \in 1..(Len(ret.value[a].points) - 1) :
                  /\ ret.value[a].points[j].index
                     < ret.value[a].points[j + 1].index
                  /\ JsLt(ret.value[a].points[j].radius,
                          ret.value[a].points[j + 1].radius)

\* 16 primes at 100 degrees: the arms 0, 1, 2, 3 of 4 points each
C17_Witness ==
    /\ DetectReturned
    /\ Len(call.primes) = 16 /\ call.angleDelta = Num(100)
    /\ Len(ret.value) = 4
    /\ [a \in 1..4 |-> ret.value[a].armIndex] = <<Num(0), Num(1), Num(2), Num(3)>>
    /\ [j \in 1..4 |-> ret.value[2].points[j].index] = <<1, 5, 9, 13>>
    /\ [j \in 1..4 |-> ret.value[2].points[j].prime] = <<3, 13, 29, 43>>

---------------------------------------------------------------------------
(* The 2D control panel *)

\* C18: after any sequence of input and change events on the Angle Delta
\* and Trace Route fields, empty and non-numeric text included, the
\* angleDelta of the canvas state is a number between 0 and 360 and
\* traceRoute a number between 0 and 36.
C18_PanelValuesInRange ==
    /\ JsGe(canvasState.angleDelta, Num(0))
    /\ JsLe(canvasState.angleDelta, Num(360))
    /\ JsGe(canvasState.traceRoute, Num(0))
    /\ JsLe(canvasState.traceRoute, Num(36))


---------------------------------------------------------------------------
(* C19: the recent window and the closed form of predictArmExtension *)

\* the last min(5, n) points of the arm handed to predictArmExtension
C19Window ==
    LET n == Len(call.points)
    IN  [i \in 1..Min(RecentWindow, n) |->
            call.points[n - Min(RecentWindow, n) + i]]

\* the gaps of consecutive primes of the window
C19Gaps == [i \in 1..(Len(C19Window) - 1) |-> C19Window[i + 1].prime - C19Window[i].prime]

\* lastPrime + s * avgGap + gapAcceleration * s * (s + 1) / 2
C19ClosedForm(lastPrime, s, avgGap, gapAcceleration) ==
    JsAdd(JsAdd(Num(lastPrime), JsMul(Num(s), avgGap)),
          JsMul(gapAcceleration, Rat(s * (s + 1), 2)))

\* C19: predictArmExtension extrapolates from the last min(5, n) points
\* only: avgGap is the mean of their consecutive prime gaps, gapAcceleration
\* is (last gap - first gap) / (number of gaps - 1) with at least two gaps
\* and 0 otherwise, and the prime value predicted at step s is
\* lastPrime + s * avgGap + gapAcceleration * s * (s + 1) / 2 (the radius is
\* 0.01 times it and the predictedPrime field its rounding); the points
\* before the window have no influence on the predictions.
C19_WindowClosedForm ==
    (PredictReturned /\ Len(call.points) >= 2)
    => LET gaps == C19Gaps
           numGaps == Len(gaps)
           lastPrime == call.points[Len(call.points)].prime
           avgGap == Rat(SumSeq(gaps), numGaps)
           gapAcceleration ==
               IF numGaps >= 2
               THEN Rat(gaps[numGaps] - gaps[1], numGaps - 1)
               ELSE Num(0)
       IN  /\ \A s \in 1..Len(ret.value) :
                 /\ ret.value[s].radius
                    = JsMul(Rat(1, 100),
                            C19ClosedForm(lastPrime, s, avgGap,
                                          gapAcceleration))
                 /\ ret.value[s].predictedPrime
                    = MathRound(C19ClosedForm(lastPrime, s, avgGap,
                                              gapAcceleration))
           /\ ret.value
              = predictArmExtension(C19Window, call.stepsPerRotation,
                                    call.angleDelta, call.numPredictions)

\* seven points 2, 31, 73, 127, 179, 233, 283 (indices 0, 10, ..., 60): the
\* window 73..283 has the gaps 54, 52, 54, 50, so avgGap is 52.5 and
\* gapAcceleration -4/3; the unrounded predictions are 2005/6, 384 and
\* 865/2, where the gaps of all seven points (average 281/6, acceleration
\* 21/5) would give 10021/30 first
C19_Witness ==
    /\ PredictReturned
    /\ Len(call.points) = 7
    /\ [i \in 1..7 |-> call.points[i].prime] = <<2, 31, 73, 127, 179, 233, 283>>
    /\ call.numPredictions = Num(3)
    /\ [s \in 1..3 |-> ret.value[s].predictedPrime] = <<Num(334), Num(384), Num(433)>>
    /\ ret.value[1].radius = Rat(2005, 600)
    /\ ret.value[3].radius = Rat(865, 200)


---------------------------------------------------------------------------
(* C20: the index a prediction targets *)

\* lastPoint.index + s * stepsPerRotation for arm a of the prediction group
C20Target(a, s) ==
    predictionGroup.arms[a].points[Len(predictionGroup.arms[a].points)].index
    + s * predictionGroup.stepsPerRotation.n

\* the scores calculateAccuracyWithExtended computes for arm a
C20Scores(a) ==
    ArmScores(predictionGroup.arms[a], StepsPerRotation(angleDelta),
              angleDelta, predictionGroup.extendedPrimes)

\* C20: for every arm and every step s in 1..predictionCount, the
\* prediction at position s - 1 of the arm's predictions targets the index
\* lastPoint.index + s * stepsPerRotation (its angle is that index times
\* angleDelta); the index is beyond the known primes, lies in the residue
\* class of the arm (index mod stepsPerRotation = armIndex), increases
\* strictly with s, and is the index the scorer and the renderer recompute
\* for that prediction.
C20_PredictionTargetsIndex ==
    (showPredictions /\ ~predictionGroup.isNull)
    => \A a \in 1..Len(predictionGroup.arms) :
          LET arm == predictionGroup.arms[a]
              lastPoint == arm.points[Len(arm.points)]
          IN  /\ Len(arm.predictions) = predictionCount.n
              /\ \A s \in 1..predictionCount.n :
                    /\ arm.predictions[s].angle
                       = JsMul(Num(C20Target(a, s)), angleDelta)
                    /\ C20Target(a, s) >= Len(primes)
                    /\ Num(C20Target(a, s) % predictionGroup.stepsPerRotation.n)
                       = arm.armIndex
                    /\ s > 1 => C20Target(a, s) > C20Target(a, s - 1)
                    /\ C20Scores(a)[s].predictedIndex = Num(C20Target(a, s))
                    /\ ActualSphereIndex(lastPoint, s - 1,
                                         predictionGroup.stepsPerRotation)
                       = Num(C20Target(a, s))

\* 12 primes at 144 degrees (stepsPerRotation 3) with 3 predictions: the arm
\* of residue class 1 ends at index 10 and its predictions target the
\* indices 13, 16 and 19, at the angles 1872, 2304 and 2736 degrees
C20_Witness ==
    /\ showPredictions /\ ~predictionGroup.isNull
    /\ Len(primes) = 12 /\ angleDelta = Num(144) /\ predictionCount = Num(3)
    /\ Len(predictionGroup.arms) = 3
    /\ predictionGroup.arms[2].armIndex = Num(1)
    /\ predictionGroup.arms[2].points[4].index = 10
    /\ [s \in 1..3 |-> predictionGroup.arms[2].predictions[s].angle] = <<Num(1872), Num(2304), Num(2736)>>
    /\ [s \in 1..3 |-> C20Scores(2)[s].predictedIndex] = <<Num(13), Num(16), Num(19)>>


---------------------------------------------------------------------------
(* C21: the radius of a predicted point and the prime it reports *)

\* 100 times the radius of prediction s: the predicted prime value the
\* position is computed from
C21Value(s) == JsMul(Num(100), ret.value[s].radius)

\* C21 as stated: the radius of every predicted point is 0.01 times the
\* predictedPrime the point reports.
C21_RadiusOfReportedPrime ==
    PredictReturned
    => \A s \in 1..Len(ret.value) :
          ret.value[s].radius = JsMul(Rat(1, 100), ret.value[s].predictedPrime)

\* C21: the radius of every predicted point is 0.01 times the predicted
\* prime value before rounding, and the predictedPrime the point reports is
\* that value rounded to the nearest integer (a tie going up): the radius is
\* 0.01 times the reported predictedPrime where the value is an integer and
\* is off by at most 0.005 otherwise.
C21_RadiusOfUnroundedPrime ==
    PredictReturned
    => \A s \in 1..Len(ret.value) :
          /\ IsInteger(ret.value[s].predictedPrime)
          /\ JsLe(Minus(ret.value[s].predictedPrime, Rat(1, 2)), C21Value(s))
          /\ JsLt(C21Value(s), JsAdd(ret.value[s].predictedPrime, Rat(1, 2)))
          /\ IsInteger(C21Value(s))
             => ret.value[s].radius
                = JsMul(Rat(1, 100), ret.value[s].predictedPrime)

\* the arm 2, 31, 73, 127, 179 (average gap 177/4, acceleration 23/3):
\* the first prediction has the radius 2771/1200 (the value 230.91...)
\* and reports 231, the second reports 291 for the value 290.5
C21_Witness ==
    /\ PredictReturned
    /\ Len(call.points) = 5 /\ call.points[5].prime = 179
    /\ Len(ret.value) = 3
    /\ ret.value[1].predictedPrime = Num(231)
    /\ ret.value[1].radius = Rat(2771, 1200)
    /\ ret.value[2].predictedPrime = Num(291)
    /\ C21Value(2) = Rat(581, 2)


---------------------------------------------------------------------------
(* C22: how far the ground truth of the prediction effect reaches *)

\* the indices the predictions of the prediction group target
C22Targets ==
    UNION {{C20Target(a, s) :
               s \in 1..Len(predictionGroup.arms[a].predictions)} :
           a \in 1..Len(predictionGroup.arms)}

\* C22: whenever the prediction effect has run and found at least one arm,
\* extendedPrimes holds exactly predictionCount * stepsPerRotation primes
\* beyond the known ones, its last index is the largest predictedIndex over
\* all arms, every prediction of every arm has a ground-truth entry, and
\* totalPredictions = (number of arms) * predictionCount.
C22_GroundTruthReachesLastPrediction ==
    (showPredictions /\ ~predictionGroup.isNull /\ predictionGroup.arms # <<>>)
    => /\ Len(predictionGroup.extendedPrimes)
          = Len(primes) + predictionCount.n * predictionGroup.stepsPerRotation.n
       /\ \A t \in C22Targets : t < Len(predictionGroup.extendedPrimes)
       /\ Len(predictionGroup.extendedPrimes) - 1 \in C22Targets
       /\ accuracyState.totalPredictions
          = Len(predictionGroup.arms) * predictionCount.n

\* 12 primes at 144 degrees with 3 predictions: 3 arms, 9 primes beyond the
\* 12, the last prediction of the arm ending at index 11 targets index 20,
\* and 9 predictions are scored
C22_Witness ==
    /\ showPredictions /\ ~predictionGroup.isNull
    /\ Len(primes) = 12 /\ angleDelta = Num(144) /\ predictionCount = Num(3)
    /\ Len(predictionGroup.arms) = 3
    /\ Len(predictionGroup.extendedPrimes) = 21
    /\ C20Target(3, 3) = 20
    /\ accuracyState.totalPredictions = 9


---------------------------------------------------------------------------
(* C23: the groups of the angular-tolerance detectSpiralArms *)

AngularDetectReturned == call.fn = "detectSpiralArmsAngular" /\ ~ret.pending

\* the points i and k (indices from 0) lie within 0.1 rad of each other
C23Near(i, k) ==
    WithinTolerance(
        ThetaDiff(ThetaOf(JsMul(Num(i), call.angleDelta)),
                  ThetaOf(JsMul(Num(k), call.angleDelta))))

\* the seeds: an index is a seed when no earlier seed is near it
C23Seeds ==
    LET isSeed[i \in 0..(Len(call.primes) - 1)] ==
            \A k \in 0..(i - 1) : isSeed[k] => ~C23Near(i, k)
    IN  {i \in 0..(Len(call.primes) - 1) : isSeed[i]}

\* the group of seed k: the points near k that are near no earlier seed
C23Group(seeds, k) ==
    {i \in 0..(Len(call.primes) - 1) :
        /\ C23Near(i, k)
        /\ \A h \in seeds : h < k => ~C23Near(i, h)}

\* the indices of the points of arm a of the result
C23Indices(a) ==
    {ret.value[a].points[j].index : j \in 1..Len(ret.value[a].points)}

C23SeedOf(a) == CHOOSE i \in C23Indices(a) : \A j \in C23Indices(a) : i <= j

C23Holds(seeds) ==
    LET kept == {k \in seeds : Cardinality(C23Group(seeds, k)) >= 5}
    IN  /\ Len(ret.value) = Cardinality(kept)
        /\ \A a \in 1..Len(ret.value) :
              /\ C23SeedOf(a) \in kept
              /\ C23Indices(a) = C23Group(seeds, C23SeedOf(a))
              /\ Len(ret.value[a].points) = Cardinality(C23Indices(a))
              /\ Len(ret.value[a].points) >= 5
              /\ \A j \in 1..(Len(ret.value[a].points) - 1) :
                    JsLt(ret.value[a].points[j].radius,
                         ret.value[a].points[j + 1].radius)
              /\ \A b \in 1..(a - 1) :
                    /\ C23SeedOf(b) < C23SeedOf(a)
                    /\ C23Indices(a) \cap C23Indices(b) = {}
        /\ \A k \in seeds \ kept :
              \A a \in 1..Len(ret.value) :
                  C23Group(seeds, k) \cap C23Indices(a) = {}

\* C23: in the angular-tolerance detectSpiralArms the seeds are tried in
\* ascending index order (the arms come in the order of their seeds), every
\* arm is its seed plus exactly the points not used yet whose polar angle is
\* within 0.1 rad of the seed's, the arms are pairwise disjoint, every arm
\* has at least 5 points in ascending radius, and a point of a group
\* discarded for being too small appears in no arm.
C23_AngularGroups ==
    (AngularDetectReturned /\ Len(call.primes) >= 10) => C23Holds(C23Seeds)

\* 13 primes at 1 degree: the seed 0 takes the indices 0..5 and the seed 6
\* the indices 6..11 (index 5 is near seed 6 but used already); index 12
\* forms a group of its own, which is discarded
C23_Witness ==
    /\ AngularDetectReturned
    /\ Len(call.primes) = 13 /\ call.angleDelta = Num(1)
    /\ Len(ret.value) = 2
    /\ C23Indices(1) = 0..5 /\ C23Indices(2) = 6..11
    /\ C23Near(5, 6)
    /\ 12 \in C23Seeds /\ C23Group(C23Seeds, 12) = {12}


---------------------------------------------------------------------------
(* C24: the memberships of the two detection policies *)

\* the memberships of a list of arms: the set of the index sets of the arms
MembershipsOf(arms) ==
    {{arms[a].points[j].index : j \in 1..Len(arms[a].points)} :
         a \in 1..Len(arms)}

\* the memberships the residue-class policy yields for the input of the
\* angular-tolerance call
C24Residue ==
    MembershipsOf(detectSpiralArms(call.primes, call.angleDelta,
                                   Num(AngularPredictions)))

\* the sizes of the residue buckets of the input
C24BucketSizes ==
    LET steps == StepsPerRotation(call.angleDelta).n
    IN  {Cardinality({i \in 0..(Len(call.primes) - 1) : i % steps = r}) :
             r \in 0..(steps - 1)}

\* 360 / angleDelta is an integer and every residue bucket has >= 5 points
C24FullBuckets ==
    /\ IsInteger(JsDiv(Num(360), call.angleDelta))
    /\ \A size \in C24BucketSizes : size >= 5

---------------------------------------------------------------------------
(* C29 *)

C29Inside ==
    /\ AboveMinScale(canvasState.scale.down, canvasState.scale.up)
    /\ BelowMaxScale(canvasState.scale.down, canvasState.scale.up)

\* a tenth taken off the scale for a positive deltaY, added for a negative
C29Target(scale, deltaY) ==
    IF deltaY > 0 THEN ScaleOf(scale.down + 1, scale.up)
    ELSE ScaleOf(scale.down, scale.up + 1)

C29Step ==
    /\ \A field \in DOMAIN canvasState \ {"scale"} :
          canvasState'[field] = canvasState[field]
    /\ IF lastEvent'.deltaYs = <<>> \/ lastEvent'.deltaYs[1] = 0
       THEN canvasState'.scale = canvasState.scale
       ELSE \E target \in {C29Target(canvasState.scale, lastEvent'.deltaYs[1])} :
              canvasState'.scale =
                  IF /\ AboveMinScale(target.down, target.up)
                     /\ BelowMaxScale(target.down, target.up)
                  THEN target ELSE canvasState.scale

\* C29: through wheel and pinch events the scale stays strictly between
\* 0.001 and 10; each updateScale moves it by a tenth against the sign of
\* deltaY where the result is strictly inside and leaves it otherwise (also
\* for deltaY = 0), and changes no other field of the canvas state.
C29_ScaleStaysInside == C29Inside /\ [][C29Inside' /\ C29Step]_vars

\* a pinch asked for a tenth off the smallest scale reached, 0.9^65
C29_Witness ==
    /\ canvasState.scale = ScaleOf(65, 0)
    /\ lastEvent.handler = "pointerEvent"
    /\ lastEvent.deltaYs = <<1>>
    /\ ~AboveMinScale(66, 0)
---------------------------------------------------------------------------
(* C28 *)

C28Home ==
    /\ canvasState.xHome = canvasState.xPosition
    /\ canvasState.yHome = canvasState.yPosition

C28Step ==
    /\ (/\ lastEvent'.handler = "pointerEvent"
        /\ lastEvent'.type = "pointermove"
        /\ ~lastEvent'.tracked)
          => UNCHANGED <<canvasState, pointers, previousDistance>>
    /\ lastEvent'.handler = "resetPosition"
          => canvasState' =
                 [canvasState EXCEPT !.xPosition = Num(0), !.yPosition = Num(0),
                                     !.xHome = Num(0), !.yHome = Num(0)]

\* C28: through pointer, wheel, resize, Recenter and control panel events
\* xHome equals xPosition and yHome equals yPosition; a pointermove of a
\* pointer id that is not tracked changes nothing; resetPosition zeroes the
\* four position fields and leaves scale, angleDelta and traceRoute.
C28_HomeFollowsPosition == C28Home /\ [][C28Home' /\ C28Step]_vars

\* the canvas was dragged by one pixel each way and the pointer released,
\* then a pointermove of the released pointer arrived
C28_Witness ==
    /\ canvasState.xPosition = Num(1)
    /\ canvasState.yPosition = Num(1)
    /\ pointers = <<>>
    /\ lastEvent.handler = "pointerEvent"
    /\ lastEvent.type = "pointermove"
    /\ ~lastEvent.tracked
---------------------------------------------------------------------------
(* C30 *)

C30TotalBends == MathFloor(JsDiv(Num(360), canvasState.angleDelta))

\* C30: for every angleDelta and traceRoute the control panel stores, the
\* tracer loop of draw ends and reads only entries points has: it visits
\* traceRoute, traceRoute + totalBends, ... below points.length, where
\* totalBends = floor(360 / angleDelta) and points has primes.length + 1
\* entries.
C30_TracerReadsExistingPoints ==
    /\ ~drawn.threw
    /\ ~drawn.diverges
    /\ \A i \in 1..Len(drawn.visited) :
          /\ drawn.visited[i] \in 0..Len(CanvasPrimes)
          /\ i = 1 => Num(drawn.visited[i]) = canvasState.traceRoute
          /\ i > 1 => Num(drawn.visited[i]) =
                          JsAdd(Num(drawn.visited[i - 1]), C30TotalBends)
---------------------------------------------------------------------------
(* C25 *)

\* the positions of the prime spheres of the group, in the order of the
\* children
RECURSIVE C25SpherePositions(_)
C25SpherePositions(children) ==
    IF children = <<>> THEN <<>>
    ELSE (IF Head(children).type = "prime"
          THEN <<Head(children).position>> ELSE <<>>)
         \o C25SpherePositions(Tail(children))

C25Vertices == IF scene.lineRef = Null THEN <<>> ELSE scene.lineRef

\* C25: where showConnector is true and every effect has run after a change
\* of primes, angleDelta or showConnector, the vertices of the connector
\* line are the positions of the prime spheres now in the group, one per
\* prime in index order: no vertex of a label, none of a removed sphere.
C25_ConnectorFollowsSpheres ==
    (/\ scene.mounted /\ scene.showConnector
     /\ scene.last \in {"primes", "angleDelta", "showConnector"})
        => C25Vertices = C25SpherePositions(scene.primesRef)

---------------------------------------------------------------------------
(* C26 *)

\* C26: however the completion of the font load interleaves with changes of
\* primes and angleDelta, once the font has loaded and the effects have run
\* the spheres are those of the current primes and angleDelta.
C26_SpheresFollowProps ==
    (scene.mounted /\ scene.fontRef /\ scene.loads = <<>>)
        => scene.primesRef =
               GroupChildren(SieveTake(scene.primes), scene.angleDelta)

---------------------------------------------------------------------------
(* C27 *)

\* C27: after any mounts, changes of width or height and unmounts at most
\* one animation loop schedules frames, and the loop an init effect started
\* schedules no frame after the cleanup of that effect.
C27_OneAnimationLoop ==
    /\ Len(scene.loops) <= 1
    /\ \A i \in 1..Len(scene.loops) :
          scene.loops[i].cleaned => scene.loops[i].frames = 0
====
